---- MODULE Spec2Model ----
(***************************************************************************)
(* Model of the manifest processor (src/lambda/csv_processor.py).          *)
(*                                                                         *)
(* Text is modelled as TLA+ strings, on which TLC evaluates Len, SubSeq,   *)
(* Head, Tail and \o.  A CSV text is the sequence of its lines, each line  *)
(* the sequence of its cells as csv.reader tokenises it (<< >> is a blank  *)
(* line).  Floating-point values are kept exactly, as integers counting    *)
(* hundredths; the cells used have at most two fractional digits.          *)
(***************************************************************************)
EXTENDS Integers, Sequences, FiniteSets, TLC

(***************************************************************************)
(* Python values and string primitives                                     *)
(***************************************************************************)

\* Python's None.  It is kept apart from every text by a character ("<")
\* that no header or cell contains; str(None) is the text "None".
None == "<None>"

Str(v) == IF v = None THEN "None" ELSE v

UpperLetters == "ABCDEFGHIJKLMNOPQRSTUVWXYZ"
LowerLetters == "abcdefghijklmnopqrstuvwxyz"
DigitChars == "0123456789"

CharAt(s, i) == SubSeq(s, i, i)

\* the letters that str.lower() and str.upper() change
LowerOf == [c \in {CharAt(UpperLetters, i) : i \in 1..Len(UpperLetters)} |->
               CharAt(LowerLetters, CHOOSE i \in 1..Len(UpperLetters) : CharAt(UpperLetters, i) = c)]
UpperOf == [c \in {CharAt(LowerLetters, i) : i \in 1..Len(LowerLetters)} |->
               CharAt(UpperLetters, CHOOSE i \in 1..Len(LowerLetters) : CharAt(LowerLetters, i) = c)]

\* str.lower()
RECURSIVE Lower(_)
Lower(s) ==
    IF s = "" THEN ""
    ELSE (IF Head(s) \in DOMAIN LowerOf THEN LowerOf[Head(s)] ELSE Head(s)) \o Lower(Tail(s))

IsSpace(c) == c \in {" ", "\t", "\r", "\n"}

RECURSIVE LStrip(_)
LStrip(s) == IF s # "" /\ IsSpace(Head(s)) THEN LStrip(Tail(s)) ELSE s

RECURSIVE RStrip(_)
RStrip(s) ==
    IF s # "" /\ IsSpace(CharAt(s, Len(s))) THEN RStrip(SubSeq(s, 1, Len(s) - 1)) ELSE s

\* str.strip()
Strip(s) == RStrip(LStrip(s))

\* kw in s
Contains(s, kw) ==
    \E i \in 1..(Len(s) - Len(kw) + 1) : SubSeq(s, i, i + Len(kw) - 1) = kw

\* any(term in s for term in terms)
AnyIn(terms, s) == \E t \in terms : Contains(s, t)

DigitOf == [c \in {CharAt(DigitChars, i) : i \in 1..Len(DigitChars)} |->
               (CHOOSE i \in 1..Len(DigitChars) : CharAt(DigitChars, i) = c) - 1]

IsDigit(c) == c \in DOMAIN DigitOf

AllDigits(s) == \A i \in 1..Len(s) : IsDigit(CharAt(s, i))

RECURSIVE ToNat(_)
ToNat(s) ==
    IF s = "" THEN 0 ELSE ToNat(SubSeq(s, 1, Len(s) - 1)) * 10 + DigitOf[CharAt(s, Len(s))]

\* the title-cased field name of f"{field.title()}: {value}"
Title(s) ==
    IF s = "" THEN ""
    ELSE (IF Head(s) \in DOMAIN UpperOf THEN UpperOf[Head(s)] ELSE Head(s)) \o Lower(Tail(s))

(***************************************************************************)
(* Value coercion                                                          *)
(***************************************************************************)

\* Floats are counted in hundredths.
Scale == 100

\* A number, the outcome of a coercion, or a numeric variable that is None.
Ok(v) == [tag |-> "ok", val |-> v]
ValueError == [tag |-> "ValueError", val |-> 0]
OverflowError == [tag |-> "OverflowError", val |-> 0]
NoneNum == [tag |-> "None", val |-> 0]

\* truthiness of a numeric variable: neither None nor zero
TruthyNum(n) == n.tag = "ok" /\ n.val # 0

\* truthiness of a text variable: neither None nor empty
Truthy(v) == v # None /\ v # ""

\* re.sub(r'[^\d.]', '', s)
RECURSIVE DigitsAndDots(_)
DigitsAndDots(s) ==
    IF s = "" THEN ""
    ELSE (IF IsDigit(Head(s)) \/ Head(s) = "." THEN Head(s) ELSE "") \o DigitsAndDots(Tail(s))

\* the first two fractional digits, right-padded with zeros
Hundredths(frac) ==
    IF Len(frac) = 0 THEN 0
    ELSE IF Len(frac) = 1 THEN ToNat(frac) * 10
    ELSE ToNat(SubSeq(frac, 1, 2))

\* float() of an unsigned decimal literal: digits, at most one point, at
\* least one digit
FloatOfDecimal(s) ==
    LET dots == {i \in 1..Len(s) : CharAt(s, i) = "."} IN
    IF Cardinality(dots) > 1 THEN ValueError
    ELSE LET p == IF dots = {} THEN Len(s) + 1 ELSE CHOOSE i \in dots : TRUE
             ip == SubSeq(s, 1, p - 1)
             fp == SubSeq(s, p + 1, Len(s))
         IN IF ip \o fp = "" \/ ~AllDigits(ip \o fp) THEN ValueError
            ELSE Ok(ToNat(ip) * Scale + Hundredths(fp))

\* float(re.sub(r'[^\d.]', '', str(value))) inside try/except (ValueError,
\* TypeError): the parsed price, or None
ParsePrice(value) ==
    LET r == FloatOfDecimal(DigitsAndDots(Str(value))) IN
    IF r.tag = "ok" THEN r ELSE NoneNum

HasSign(s) == s # "" /\ Head(s) \in {"+", "-"}
Unsigned(s) == IF HasSign(s) THEN Tail(s) ELSE s
Signed(s, n) == IF s # "" /\ Head(s) = "-" THEN 0 - n ELSE n

\* float(s): optional sign, then a decimal literal, "inf", "infinity" or
\* "nan" (any case); surrounding whitespace is ignored
PyFloat(s) ==
    LET t == Strip(s)
        u == Lower(Unsigned(t))
    IN IF u \in {"inf", "infinity"} THEN [tag |-> "inf", val |-> 0]
       ELSE IF u = "nan" THEN [tag |-> "nan", val |-> 0]
       ELSE LET r == FloatOfDecimal(u) IN
            IF r.tag = "ok" THEN Ok(Signed(t, r.val)) ELSE ValueError

\* int(x) of a float x: truncation toward zero
Trunc(v) == IF v >= 0 THEN v \div Scale ELSE 0 - ((0 - v) \div Scale)

\* int(float(value)), as in extract_item_from_row
IntOfFloat(s) ==
    LET f == PyFloat(s) IN
    IF f.tag = "inf" THEN OverflowError
    ELSE IF f.tag = "ok" THEN Ok(Trunc(f.val))
    ELSE ValueError

\* int(s): optional sign, digits; surrounding whitespace is ignored
PyInt(s) ==
    LET t == Strip(s)
        u == Unsigned(t)
    IN IF u # "" /\ AllDigits(u) THEN Ok(Signed(t, ToNat(u))) ELSE ValueError

\* value.lower() not in ['', 'n/a', 'null', 'none']
IsSentinel(value) == Lower(value) \in {"", "n/a", "null", "none"}

\* quantity = int(float(value)) inside try/except (ValueError, TypeError):
\* the quantity, None, or the OverflowError that the handler does not catch
ParseQuantityUniversal(value) ==
    LET r == IntOfFloat(value) IN
    IF r.tag = "ValueError" THEN NoneNum ELSE r

\* quantity = int(value.strip()) inside try/except (ValueError, TypeError)
ParseQuantityDialect(value) ==
    LET r == PyInt(value) IN
    IF r.tag = "ok" THEN r ELSE NoneNum

(***************************************************************************)
(* csv.DictReader                                                          *)
(***************************************************************************)

\* A cell longer than csv.field_size_limit(): reading its line raises
\* csv.Error.
HugeField == "<field larger than field limit>"

LineRaises(line) == \E i \in 1..Len(line) : line[i] = HugeField

\* The dict DictReader builds for one line: the (key, value) pairs in key
\* order, and under the key None (restkey) the list of the cells beyond the
\* last field name.  A repeated field name keeps its first position and its
\* last value; a missing cell is None (restval).
DictRow(fieldnames, cells) ==
    LET lf == Len(fieldnames)
        lr == Len(cells)
        firsts == {i \in 1..lf : \A j \in 1..(i - 1) : fieldnames[j] # fieldnames[i]}
        lastOf(i) == CHOOSE j \in 1..lf :
                        /\ fieldnames[j] = fieldnames[i]
                        /\ \A k \in (j + 1)..lf : fieldnames[k] # fieldnames[i]
        valueOf(i) == IF lastOf(i) <= lr THEN cells[lastOf(i)] ELSE None
        RECURSIVE Pairs(_)
        Pairs(i) == IF i > lf THEN << >>
                    ELSE (IF i \in firsts THEN << <<fieldnames[i], valueOf(i)>> >> ELSE << >>)
                         \o Pairs(i + 1)
    IN [pairs |-> Pairs(1),
        rest |-> IF lf < lr THEN SubSeq(cells, lf + 1, lr) ELSE << >>]

HasRestKey(row) == row.rest # << >>

\* row.keys(), without the key None
Keys(row) == {row.pairs[i][1] : i \in 1..Len(row.pairs)}

\* row[key]
Get(row, key) == row.pairs[CHOOSE i \in 1..Len(row.pairs) : row.pairs[i][1] = key][2]

\* The reader skips blank lines between rows: the index of the first
\* non-blank line at or after i, or Len(lines) + 1.
RECURSIVE SkipBlank(_, _)
SkipBlank(lines, i) ==
    IF i <= Len(lines) /\ lines[i] = << >> THEN SkipBlank(lines, i + 1) ELSE i

(***************************************************************************)
(* Dialect extractors: the body of `for row in reader` of each parse_*     *)
(* function.  The loop over row.items() assigns a variable each time a     *)
(* key falls in its branch of the elif chain and the cell is non-blank, so *)
(* the variable ends with the cell of the LAST such key.                   *)
(***************************************************************************)

\* if not row or not any(row.values())
SkipsRow(row) ==
    /\ ~HasRestKey(row)
    /\ \A i \in 1..Len(row.pairs) : ~Truthy(row.pairs[i][2])

\* if value and value.strip()
NonBlank(value) == Truthy(value) /\ Strip(value) # ""

\* key.lower().strip()
KeyLower(key) == Strip(Lower(key))

\* the chain of parse_grainger_format with the price test moved to the front
GraingerBranchPriceFirst(k) ==
    IF Contains(k, "msrp") \/ Contains(k, "grainger") \/ k = "g $" THEN "msrp"
    ELSE IF Contains(k, "grainger") /\ (Contains(k, "#") \/ Contains(k, "item")) THEN "item_number"
    ELSE IF AnyIn({"title", "description", "name", "desc"}, k) THEN "title"
    ELSE IF AnyIn({"notes", "comment"}, k) THEN "notes"
    ELSE IF AnyIn({"pallet", "lot"}, k) THEN "pallet"
    ELSE "none"

GraingerBranch(k) ==
    IF Contains(k, "grainger") /\ (Contains(k, "#") \/ Contains(k, "item")) THEN "item_number"
    ELSE IF AnyIn({"title", "description", "name", "desc"}, k) THEN "title"
    ELSE IF Contains(k, "msrp") \/ Contains(k, "grainger") \/ k = "g $" THEN "msrp"
    ELSE IF AnyIn({"notes", "comment"}, k) THEN "notes"
    ELSE IF AnyIn({"pallet", "lot"}, k) THEN "pallet"
    ELSE "none"

LiquidationBranch(k) ==
    IF Contains(k, "upc") THEN "upc"
    ELSE IF AnyIn({"description", "product"}, k) THEN "title"
    ELSE IF (Contains(k, "retail price") /\ ~Contains(k, "total")) \/ k = "\"retail price\""
         THEN "msrp"
    ELSE IF Contains(k, "category") THEN "category"
    ELSE IF AnyIn({"qty", "quantity"}, k) THEN "quantity"
    ELSE "none"

StaplesBranch(k) ==
    IF Contains(k, "description") THEN "description"
    ELSE IF Contains(k, "model") THEN "model"
    ELSE IF Contains(k, "retail price") /\ ~Contains(k, "ext") THEN "msrp"
    ELSE IF AnyIn({"quantity", "qty"}, k) THEN "quantity"
    ELSE IF AnyIn({"sku restriction", "restriction"}, k) THEN "sku_restriction"
    ELSE "none"

DirectLiquidationBranch(k) ==
    IF AnyIn({"item title", "title"}, k) THEN "item_title"
    ELSE IF AnyIn({"retail price", "msrp"}, k) THEN "msrp"
    ELSE IF Contains(k, "upc") THEN "upc"
    ELSE IF Contains(k, "brand") THEN "brand"
    ELSE IF AnyIn({"quantity", "qty"}, k) THEN "quantity"
    ELSE "none"

DepartmentStoreBranch(k) ==
    IF Contains(k, "sku") THEN "sku"
    ELSE IF AnyIn({"product name", "name"}, k) THEN "product_name"
    ELSE IF Contains(k, "msrp") /\ ~Contains(k, "extended") THEN "msrp"
    ELSE IF Contains(k, "brand") THEN "brand"
    ELSE IF Contains(k, "condition") THEN "condition"
    ELSE IF AnyIn({"quantity", "qty"}, k) THEN "quantity"
    ELSE "none"

ElectronicsBranch(k) ==
    IF AnyIn({"model number", "model"}, k) THEN "model_number"
    ELSE IF Contains(k, "description") THEN "description"
    ELSE IF Contains(k, "retail price") /\ ~Contains(k, "total") THEN "msrp"
    ELSE IF Contains(k, "condition") THEN "condition"
    ELSE IF AnyIn({"qty", "quantity"}, k) THEN "quantity"
    ELSE "none"

CostcoBranch(k) ==
    IF Contains(k, "item number") THEN "item_number"
    ELSE IF Contains(k, "description") THEN "description"
    ELSE IF Contains(k, "sell price") /\ ~Contains(k, "extended") THEN "msrp"
    ELSE IF AnyIn({"quantity", "qty"}, k) THEN "quantity"
    ELSE IF Contains(k, "salvage") /\ Contains(k, "percent") THEN "salvage_percent"
    ELSE "none"

GenericProductBranch(k) ==
    IF AnyIn({"sku", "id", "code", "number"}, k) THEN "item_number"
    ELSE IF AnyIn({"name", "title", "description", "product"}, k) THEN "title"
    ELSE IF AnyIn({"price", "msrp", "cost", "retail"}, k) THEN "msrp"
    ELSE IF AnyIn({"notes", "comment", "remark"}, k) THEN "notes"
    ELSE IF AnyIn({"lot", "batch", "pallet"}, k) THEN "pallet"
    ELSE "none"

PartsBranch(k) ==
    IF AnyIn({"part", "model", "sku", "pn"}, k) THEN "item_number"
    ELSE IF AnyIn({"description", "name", "title"}, k) THEN "title"
    ELSE IF AnyIn({"price", "cost", "value"}, k) THEN "msrp"
    ELSE IF AnyIn({"notes", "condition"}, k) THEN "notes"
    ELSE IF AnyIn({"location", "bin", "lot"}, k) THEN "pallet"
    ELSE "none"

\* the branch of an extractor's if/elif chain that a key takes
BranchOf(tag, k) ==
    CASE tag = "grainger" -> GraingerBranch(k)
      [] tag = "liquidation" -> LiquidationBranch(k)
      [] tag = "staples" -> StaplesBranch(k)
      [] tag = "direct_liquidation" -> DirectLiquidationBranch(k)
      [] tag = "department_store" -> DepartmentStoreBranch(k)
      [] tag = "electronics" -> ElectronicsBranch(k)
      [] tag = "costco" -> CostcoBranch(k)
      [] tag = "generic_product" -> GenericProductBranch(k)
      [] tag = "parts" -> PartsBranch(k)

\* for each key of the row, in order, the branch of the chain that it takes
Branches(row, tag) ==
    [i \in 1..Len(row.pairs) |-> BranchOf(tag, KeyLower(row.pairs[i][1]))]

\* the cell of the last key that falls in `branch` with a non-blank cell, or
\* None when the variable is never assigned
Assigned(row, branches, branch) ==
    LET hits == {i \in 1..Len(row.pairs) :
                    /\ NonBlank(row.pairs[i][2])
                    /\ branches[i] = branch}
    IN IF hits = {} THEN None
       ELSE row.pairs[CHOOSE i \in hits : \A j \in hits : j <= i][2]

AssignedText(row, branches, branch) ==
    LET v == Assigned(row, branches, branch) IN IF v = None THEN None ELSE Strip(v)

AssignedPrice(row, branches, branch) ==
    LET v == Assigned(row, branches, branch) IN IF v = None THEN NoneNum ELSE ParsePrice(v)

AssignedQuantity(row, branches, branch) ==
    LET v == Assigned(row, branches, branch) IN
    IF v = None THEN NoneNum ELSE ParseQuantityDialect(v)

Item(item_number, title, msrp, quantity, notes, pallet) ==
    [item_number |-> item_number, title |-> title, msrp |-> msrp,
     quantity |-> quantity, notes |-> notes, pallet |-> pallet]

Skip == [tag |-> "skip"]
Raise == [tag |-> "raise"]
Emit(item) == [tag |-> "item", item |-> item]

\* f"item_{n}"
Placeholder(n) == "item_" \o ToString(n)

\* quantity or 1
QuantityOr1(quantity) == IF TruthyNum(quantity) THEN quantity.val ELSE 1

\* f"Qty: {quantity}" if quantity else None
QtyPallet(quantity) ==
    IF TruthyNum(quantity) THEN "Qty: " \o ToString(quantity.val) ELSE None

\* ", ".join(notes_parts) if notes_parts else None
RECURSIVE JoinParts(_)
JoinParts(parts) ==
    IF parts = << >> THEN None
    ELSE IF Len(parts) = 1 THEN parts[1]
    ELSE parts[1] \o ", " \o JoinParts(Tail(parts))

\* the part f"{label}: {value}" when value is truthy
Part(label, value) == IF Truthy(value) THEN << label \o ": " \o value >> ELSE << >>

\* str() of a float
FloatStr(v) ==
    LET ip == v \div Scale
        fr == v % Scale
    IN ToString(ip) \o "." \o
       (IF fr % 10 = 0 THEN ToString(fr \div 10)
        ELSE IF fr < 10 THEN "0" \o ToString(fr) ELSE ToString(fr))

parse_grainger_row(row, n) ==
    IF SkipsRow(row) THEN Skip
    ELSE IF HasRestKey(row) THEN Raise
    ELSE LET branches == Branches(row, "grainger")
             item_number == AssignedText(row, branches, "item_number")
             title == AssignedText(row, branches, "title")
             msrp == AssignedPrice(row, branches, "msrp")
             notes == AssignedText(row, branches, "notes")
             pallet == AssignedText(row, branches, "pallet")
         IN IF Truthy(item_number) /\ Truthy(title) /\ TruthyNum(msrp)
            THEN Emit(Item(item_number, title, msrp.val, 1, notes, pallet))
            ELSE Skip

\* parse_liquidation_format with `if title:` in place of `if title and msrp:`
parse_liquidation_row_no_price_gate(row, n) ==
    IF SkipsRow(row) THEN Skip
    ELSE IF HasRestKey(row) THEN Raise
    ELSE LET branches == Branches(row, "liquidation")
             upc == AssignedText(row, branches, "upc")
             title == AssignedText(row, branches, "title")
             msrp == AssignedPrice(row, branches, "msrp")
             category == AssignedText(row, branches, "category")
             quantity == AssignedQuantity(row, branches, "quantity")
         IN IF Truthy(title)
            THEN Emit(Item(IF Truthy(upc) THEN upc ELSE Placeholder(n + 1), title, msrp.val,
                           QuantityOr1(quantity),
                           IF Truthy(category) THEN "Category: " \o category ELSE None,
                           QtyPallet(quantity)))
            ELSE Skip

parse_liquidation_row(row, n) ==
    IF SkipsRow(row) THEN Skip
    ELSE IF HasRestKey(row) THEN Raise
    ELSE LET branches == Branches(row, "liquidation")
             upc == AssignedText(row, branches, "upc")
             title == AssignedText(row, branches, "title")
             msrp == AssignedPrice(row, branches, "msrp")
             category == AssignedText(row, branches, "category")
             quantity == AssignedQuantity(row, branches, "quantity")
         IN IF Truthy(title) /\ TruthyNum(msrp)
            THEN Emit(Item(IF Truthy(upc) THEN upc ELSE Placeholder(n + 1), title, msrp.val,
                             QuantityOr1(quantity),
                             IF Truthy(category) THEN "Category: " \o category ELSE None,
                             QtyPallet(quantity)))
            ELSE Skip

parse_staples_row(row, n) ==
    IF SkipsRow(row) THEN Skip
    ELSE IF HasRestKey(row) THEN Raise
    ELSE LET branches == Branches(row, "staples")
             description == AssignedText(row, branches, "description")
             model == AssignedText(row, branches, "model")
             msrp == AssignedPrice(row, branches, "msrp")
             quantity == AssignedQuantity(row, branches, "quantity")
             sku_restriction == AssignedText(row, branches, "sku_restriction")
         IN IF Truthy(description) /\ TruthyNum(msrp)
            THEN Emit(Item(IF Truthy(model) THEN model ELSE Placeholder(n + 1), description,
                             msrp.val, QuantityOr1(quantity),
                             JoinParts(Part("Model", model) \o Part("Restriction", sku_restriction)),
                             QtyPallet(quantity)))
            ELSE Skip

parse_direct_liquidation_row(row, n) ==
    IF SkipsRow(row) THEN Skip
    ELSE IF HasRestKey(row) THEN Raise
    ELSE LET branches == Branches(row, "direct_liquidation")
             item_title == AssignedText(row, branches, "item_title")
             msrp == AssignedPrice(row, branches, "msrp")
             upc == AssignedText(row, branches, "upc")
             brand == AssignedText(row, branches, "brand")
             quantity == AssignedQuantity(row, branches, "quantity")
         IN IF Truthy(item_title) /\ TruthyNum(msrp)
            THEN Emit(Item(IF Truthy(upc) THEN upc ELSE Placeholder(n + 1), item_title,
                             msrp.val, QuantityOr1(quantity),
                             IF Truthy(brand) THEN "Brand: " \o brand ELSE None,
                             QtyPallet(quantity)))
            ELSE Skip

parse_department_store_row(row, n) ==
    IF SkipsRow(row) THEN Skip
    ELSE IF HasRestKey(row) THEN Raise
    ELSE LET branches == Branches(row, "department_store")
             sku == AssignedText(row, branches, "sku")
             product_name == AssignedText(row, branches, "product_name")
             msrp == AssignedPrice(row, branches, "msrp")
             brand == AssignedText(row, branches, "brand")
             condition == AssignedText(row, branches, "condition")
             quantity == AssignedQuantity(row, branches, "quantity")
         IN IF Truthy(product_name) /\ TruthyNum(msrp)
            THEN Emit(Item(IF Truthy(sku) THEN sku ELSE Placeholder(n + 1), product_name,
                             msrp.val, QuantityOr1(quantity),
                             JoinParts(Part("Brand", brand) \o Part("Condition", condition)),
                             QtyPallet(quantity)))
            ELSE Skip

parse_electronics_row(row, n) ==
    IF SkipsRow(row) THEN Skip
    ELSE IF HasRestKey(row) THEN Raise
    ELSE LET branches == Branches(row, "electronics")
             model_number == AssignedText(row, branches, "model_number")
             description == AssignedText(row, branches, "description")
             msrp == AssignedPrice(row, branches, "msrp")
             condition == AssignedText(row, branches, "condition")
             quantity == AssignedQuantity(row, branches, "quantity")
         IN IF Truthy(description) /\ TruthyNum(msrp)
            THEN Emit(Item(IF Truthy(model_number) THEN model_number ELSE Placeholder(n + 1),
                             description, msrp.val, QuantityOr1(quantity),
                             JoinParts(Part("Model", model_number) \o Part("Condition", condition)),
                             QtyPallet(quantity)))
            ELSE Skip

parse_costco_row(row, n) ==
    IF SkipsRow(row) THEN Skip
    ELSE IF HasRestKey(row) THEN Raise
    ELSE LET branches == Branches(row, "costco")
             item_number == AssignedText(row, branches, "item_number")
             description == AssignedText(row, branches, "description")
             msrp == AssignedPrice(row, branches, "msrp")
             quantity == AssignedQuantity(row, branches, "quantity")
             salvage_percent == AssignedPrice(row, branches, "salvage_percent")
         IN IF Truthy(description) /\ TruthyNum(msrp)
            THEN Emit(Item(IF Truthy(item_number) THEN item_number ELSE Placeholder(n + 1),
                             description, msrp.val, QuantityOr1(quantity),
                             IF TruthyNum(salvage_percent)
                             THEN "Salvage: " \o FloatStr(salvage_percent.val) \o "%" ELSE None,
                             QtyPallet(quantity)))
            ELSE Skip

parse_generic_product_row(row, n) ==
    IF SkipsRow(row) THEN Skip
    ELSE IF HasRestKey(row) THEN Raise
    ELSE LET branches == Branches(row, "generic_product")
             item_number == AssignedText(row, branches, "item_number")
             title == AssignedText(row, branches, "title")
             msrp == AssignedPrice(row, branches, "msrp")
             notes == AssignedText(row, branches, "notes")
             pallet == AssignedText(row, branches, "pallet")
         IN IF Truthy(item_number) /\ Truthy(title) /\ TruthyNum(msrp)
            THEN Emit(Item(item_number, title, msrp.val, 1, notes, pallet))
            ELSE Skip

parse_parts_row(row, n) ==
    IF SkipsRow(row) THEN Skip
    ELSE IF HasRestKey(row) THEN Raise
    ELSE LET branches == Branches(row, "parts")
             item_number == AssignedText(row, branches, "item_number")
             title == AssignedText(row, branches, "title")
             msrp == AssignedPrice(row, branches, "msrp")
             notes == AssignedText(row, branches, "notes")
             pallet == AssignedText(row, branches, "pallet")
         IN IF Truthy(item_number) /\ Truthy(title) /\ TruthyNum(msrp)
            THEN Emit(Item(item_number, title, msrp.val, 1, notes, pallet))
            ELSE Skip

(***************************************************************************)
(* Universal path: analyze_headers and extract_item_from_row               *)
(***************************************************************************)

FieldKeys ==
    {"item_number", "title", "msrp", "quantity", "notes", "pallet", "category", "brand",
     "condition", "upc", "sku", "model"}

EmptyColumnMap == [f \in FieldKeys |-> None]

\* The Field Key that the if/elif chain of analyze_headers offers to a
\* header ("none" when the header falls in a branch that maps nothing, or
\* in no branch).
HeaderRule(header_lower) ==
    IF AnyIn({"item", "sku", "part", "product"}, header_lower)
    THEN IF AnyIn({"number", "#", "id", "code"}, header_lower) THEN "item_number"
         ELSE IF AnyIn({"sku", "stock"}, header_lower) THEN "sku"
         ELSE "none"
    ELSE IF AnyIn({"title", "name", "description", "desc", "product"}, header_lower) THEN "title"
    ELSE IF AnyIn({"price", "cost", "msrp", "retail", "sell"}, header_lower)
    THEN IF AnyIn({"msrp", "retail", "list"}, header_lower) THEN "msrp"
         ELSE IF ~Contains(header_lower, "extended") /\ ~Contains(header_lower, "total")
         THEN "msrp"
         ELSE "none"
    ELSE IF AnyIn({"qty", "quantity", "count", "units"}, header_lower) THEN "quantity"
    ELSE IF AnyIn({"category", "cat", "type", "class"}, header_lower) THEN "category"
    ELSE IF AnyIn({"brand", "manufacturer", "maker"}, header_lower) THEN "brand"
    ELSE IF AnyIn({"condition", "grade", "quality"}, header_lower) THEN "condition"
    ELSE IF AnyIn({"upc", "barcode", "ean"}, header_lower) THEN "upc"
    ELSE IF AnyIn({"model", "part"}, header_lower) THEN "model"
    ELSE IF AnyIn({"notes", "comment", "remark", "description"}, header_lower) THEN "notes"
    ELSE IF AnyIn({"pallet", "lot", "batch", "location", "bin"}, header_lower) THEN "pallet"
    ELSE "none"

\* one iteration of `for header in headers`
ClaimHeader(column_map, header) ==
    IF header = "" THEN column_map
    ELSE LET key == HeaderRule(Strip(Lower(header))) IN
         IF key # "none" /\ ~Truthy(column_map[key])
         THEN [column_map EXCEPT ![key] = header]
         ELSE column_map

RECURSIVE ClaimHeaders(_, _)
ClaimHeaders(column_map, headers) ==
    IF headers = << >> THEN column_map
    ELSE ClaimHeaders(ClaimHeader(column_map, Head(headers)), Tail(headers))

\* the fallback substitution that ends analyze_headers
FallbackSubstitution(cm) ==
    LET a == IF ~Truthy(cm.item_number) /\ Truthy(cm.sku)
                THEN [cm EXCEPT !.item_number = cm.sku]
             ELSE IF ~Truthy(cm.item_number) /\ Truthy(cm.upc)
                THEN [cm EXCEPT !.item_number = cm.upc]
             ELSE IF ~Truthy(cm.item_number) /\ Truthy(cm.model)
                THEN [cm EXCEPT !.item_number = cm.model]
             ELSE cm
    IN IF ~Truthy(a.title) /\ Truthy(a.notes) THEN [a EXCEPT !.title = a.notes] ELSE a

analyze_headers(headers) == FallbackSubstitution(ClaimHeaders(EmptyColumnMap, headers))

\* The cell read for a Field Key: str(row[column_map[field]]).strip() when
\* the field is mapped to a key of the row and the cell is no blank
\* sentinel; None otherwise.
MappedCell(row, column_map, field) ==
    IF Truthy(column_map[field]) /\ column_map[field] \in Keys(row)
    THEN LET value == Strip(Str(Get(row, column_map[field]))) IN
         IF value # "" /\ ~IsSentinel(value) THEN value ELSE None
    ELSE None

\* for field in ['item_number', 'sku', 'upc', 'model']: the first cell found
FirstIdentifier(row, column_map) ==
    LET order == <<"item_number", "sku", "upc", "model">>
        found == {i \in 1..Len(order) : MappedCell(row, column_map, order[i]) # None}
    IN IF found = {} THEN None
       ELSE MappedCell(row, column_map, order[CHOOSE i \in found : \A j \in found : i <= j])

\* notes_parts, over ['category', 'brand', 'condition']
RECURSIVE NotesParts(_, _, _)
NotesParts(row, column_map, fields) ==
    IF fields = << >> THEN << >>
    ELSE LET value == MappedCell(row, column_map, Head(fields)) IN
         (IF value # None THEN << Title(Head(fields)) \o ": " \o value >> ELSE << >>)
         \o NotesParts(row, column_map, Tail(fields))

extract_item_from_row(row, column_map, row_num) ==
    LET item_number == FirstIdentifier(row, column_map)
        title == MappedCell(row, column_map, "title")
        msrpCell == MappedCell(row, column_map, "msrp")
        msrp == IF msrpCell = None THEN NoneNum ELSE ParsePrice(msrpCell)
        quantityCell == MappedCell(row, column_map, "quantity")
        quantity == IF quantityCell = None THEN NoneNum ELSE ParseQuantityUniversal(quantityCell)
        notes_parts == NotesParts(row, column_map, <<"category", "brand", "condition">>)
        pallet == MappedCell(row, column_map, "pallet")
    IN IF quantity.tag = "OverflowError" THEN Raise
       ELSE IF ~Truthy(title) \/ ~TruthyNum(msrp) \/ msrp.val <= 0 THEN Skip
       ELSE Emit(Item(IF Truthy(item_number) THEN item_number ELSE Placeholder(row_num),
                      title, msrp.val, QuantityOr1(quantity), JoinParts(notes_parts), pallet))

\* if not row or not any(str(v).strip() for v in row.values() if v)
SkipsRowUniversal(row) ==
    /\ ~HasRestKey(row)
    /\ \A i \in 1..Len(row.pairs) : ~NonBlank(row.pairs[i][2])

\* the body of the try block of one iteration of parse_universal_csv's loop
parse_universal_row(row, column_map, row_num) ==
    IF SkipsRowUniversal(row) THEN Skip ELSE extract_item_from_row(row, column_map, row_num)

\* if error_count > 10
MaxRowErrors == 10

(***************************************************************************)
(* Dialect classification and dispatch of parse_manifest_csv               *)
(***************************************************************************)

RECURSIVE JoinCells(_)
JoinCells(cells) ==
    IF cells = << >> THEN ""
    ELSE IF Len(cells) = 1 THEN cells[1]
    ELSE cells[1] \o "," \o JoinCells(Tail(cells))

\* lines[0].lower(): the first line of the text, blank or not
HeaderLine(lines) == IF lines = << >> THEN "" ELSE Lower(JoinCells(lines[1]))

\* the keyword list of each branch of the if/elif chain
Signature ==
    [grainger |-> {"grainger", "item #", "item number", "sku"},
     liquidation |-> {"upc", "description", "retail price", "total retail price"},
     staples |-> {"description", "model", "quantity", "ext. retail price"},
     direct_liquidation |-> {"item title", "quantity", "retail price", "brand"},
     department_store |-> {"sku", "product name", "brand", "condition", "msrp"},
     electronics |-> {"model number", "condition", "total retail"},
     costco |-> {"item number", "sell price", "extended sell", "salvage"},
     generic_product |-> {"product", "description", "price", "cost"},
     parts |-> {"part", "model", "manufacturer"}]

\* the order in which the chain tests the dialects
DialectOrder ==
    <<"grainger", "liquidation", "staples", "direct_liquidation", "department_store",
      "electronics", "costco", "generic_product", "parts">>

\* the first dialect of the chain with a keyword in header_line; the else
\* branch is the Universal path
Classify(header_line) ==
    LET hits == {i \in 1..Len(DialectOrder) : AnyIn(Signature[DialectOrder[i]], header_line)}
    IN IF hits = {} THEN "universal"
       ELSE DialectOrder[CHOOSE i \in hits : \A j \in hits : i <= j]

\* the row body of the extractor that a dialect tag dispatches to
DialectRow(tag, row, n) ==
    CASE tag = "grainger" -> parse_grainger_row(row, n)
      [] tag = "liquidation" -> parse_liquidation_row(row, n)
      [] tag = "staples" -> parse_staples_row(row, n)
      [] tag = "direct_liquidation" -> parse_direct_liquidation_row(row, n)
      [] tag = "department_store" -> parse_department_store_row(row, n)
      [] tag = "electronics" -> parse_electronics_row(row, n)
      [] tag = "costco" -> parse_costco_row(row, n)
      [] tag = "generic_product" -> parse_generic_product_row(row, n)
      [] tag = "parts" -> parse_parts_row(row, n)

\* next(reader) of a DictReader that has consumed `pos` lines: the field
\* names are read from the first line on first use, blank lines are skipped,
\* and a line with an oversized field raises csv.Error.
ReadNext(lines, pos) ==
    LET i == SkipBlank(lines, IF pos = 0 THEN 2 ELSE pos + 1) IN
    IF pos = 0 /\ LineRaises(lines[1]) THEN [tag |-> "error", idx |-> 1]
    ELSE IF i > Len(lines) THEN [tag |-> "end", idx |-> Len(lines)]
    ELSE IF LineRaises(lines[i]) THEN [tag |-> "error", idx |-> i]
    ELSE [tag |-> "row", idx |-> i, row |-> DictRow(lines[1], lines[i])]

(***************************************************************************)
(* Inputs: CSV texts built from the column layouts the source documents    *)
(***************************************************************************)

Col(name, role) == [name |-> name, role |-> role]

\* the layout each vendor dialect is documented for: the Grainger header of
\* the end-to-end scenario and the formats named in the docstrings of the
\* dialect extractors
DocumentedLayout ==
    [grainger |->
         << Col("Grainger item #", "id"), Col("title line", "title"),
            Col("msrp - grainger", "price") >>,
     liquidation |->
         << Col("UPC", "id"), Col("Description", "title"), Col("Category", "aux"),
            Col("Qty", "qty"), Col("Retail Price", "price"), Col("Total Retail Price", "ext") >>,
     staples |->
         << Col("Description", "title"), Col("Model", "id"), Col("Quantity", "qty"),
            Col("Retail Price", "price"), Col("Ext. Retail Price", "ext"),
            Col("Sku Restriction", "aux") >>,
     direct_liquidation |->
         << Col("Item Title", "title"), Col("Quantity", "qty"), Col("Retail Price", "price"),
            Col("UPC", "id"), Col("Brand", "aux") >>,
     department_store |->
         << Col("SKU", "id"), Col("Product Name", "title"), Col("Brand", "aux"),
            Col("Condition", "aux"), Col("Quantity", "qty"), Col("MSRP", "price"),
            Col("Extended MSRP", "ext") >>,
     electronics |->
         << Col("Model Number", "id"), Col("Description", "title"), Col("Condition", "aux"),
            Col("Qty", "qty"), Col("Retail Price", "price"), Col("Total Retail", "ext") >>,
     costco |->
         << Col("Item Number", "id"), Col("Description", "title"), Col("Quantity", "qty"),
            Col("Sell Price", "price"), Col("Extended Sell", "ext"),
            Col("Salvage Percent", "aux") >>]

\* headers that reach the extractors which the documented headers do not
OtherDialectLayouts ==
    { << Col("Model", "id"), Col("Quantity", "qty"), Col("Price", "price") >>,
      << Col("Description", "title"), Col("Qty", "qty"), Col("Retail Price", "price"),
         Col("Ext. Retail Price", "ext") >>,
      << Col("Item Title", "title"), Col("MSRP", "price"), Col("Brand", "aux") >>,
      << Col("Product Name", "title"), Col("Condition", "aux"), Col("MSRP", "price") >>,
      << Col("Name", "title"), Col("Total Retail", "ext"), Col("Retail", "price") >>,
      << Col("Name", "title"), Col("Sell Price", "price"), Col("Salvage Percent", "aux") >>,
      << Col("Code", "id"), Col("Product", "title"), Col("Cost", "price"), Col("Lot", "aux") >>,
      << Col("Part No", "id"), Col("Name", "title"), Col("Value", "price"), Col("Bin", "aux") >> }

\* headers no dialect recognises
UnknownLayouts ==
    { << Col("Barcode", "id"), Col("Name", "title"), Col("Retail", "price"), Col("Qty", "qty"),
         Col("Type", "aux") >>,
      << Col("foo", "id"), Col("bar", "title"), Col("baz", "price") >>,
      << Col("Name", "title"), Col("Name Notes", "aux"), Col("Retail", "price") >>,
      << Col("Name", "title"), Col("Sell", "ext"), Col("Retail", "price") >> }

Layouts ==
    {DocumentedLayout[d] : d \in DOMAIN DocumentedLayout} \cup OtherDialectLayouts
    \cup UnknownLayouts

UniversalLayout == << Col("Name", "title"), Col("Retail", "price"), Col("Qty", "qty") >>

GoodCells ==
    [id |-> "G123", title |-> "Drill Press", price |-> "$450.00", qty |-> "3",
     ext |-> "$1,350.00", aux |-> "Tools"]

\* the cells of a data row, by the role of the column they stand in
CellTemplates ==
    { GoodCells,
      [GoodCells EXCEPT !.price = "0"],
      [GoodCells EXCEPT !.price = "N/A", !.ext = ""],
      [GoodCells EXCEPT !.price = "0.02", !.title = "Steel Tank"],
      [GoodCells EXCEPT !.qty = "inf"],
      [GoodCells EXCEPT !.qty = "3.0"],
      [GoodCells EXCEPT !.qty = "-2"],
      [r \in DOMAIN GoodCells |-> ""] }

RowOf(layout, cells) == [i \in 1..Len(layout) |-> cells[layout[i].role]]

HeaderOf(layout) == [i \in 1..Len(layout) |-> layout[i].name]

\* rows by their shape: well-formed, without identifier, without title, one
\* cell short, one cell long, a blank line, an oversized field
ShapeLines(layout) ==
    {RowOf(layout, GoodCells),
     RowOf(layout, [GoodCells EXCEPT !.id = ""]),
     RowOf(layout, [GoodCells EXCEPT !.title = " "]),
     SubSeq(RowOf(layout, GoodCells), 1, Len(layout) - 1),
     RowOf(layout, GoodCells) \o <<"extra">>,
     << >>,
     <<HugeField>>}

\* every data line a text may hold under a layout
DataLines(layout) == ShapeLines(layout) \cup {RowOf(layout, c) : c \in CellTemplates}

\* the most data lines of a text made of rows of every shape
MaxRows == 2

\* the most data lines of a text made of rows of every shape and content
MaxMixedRows == 1

RECURSIVE SeqsUpTo(_, _)
SeqsUpTo(S, n) ==
    IF n = 0 THEN {<< >>}
    ELSE LET shorter == SeqsUpTo(S, n - 1) IN
         shorter \cup {Append(q, e) : q \in {t \in shorter : Len(t) = n - 1}, e \in S}

Text(lines) == [isStr |-> TRUE, lines |-> lines]

\* a header line followed by data lines
LayoutTexts ==
    UNION {{Text(<<HeaderOf(l)>> \o rows) :
               rows \in SeqsUpTo(ShapeLines(l), MaxRows) \cup SeqsUpTo(DataLines(l), MaxMixedRows)} :
           l \in Layouts}

\* the most data lines of a text that exercises the row-error count
MaxLongRows == 13

\* texts under the unrecognised layout whose rows raise in the Universal
\* path (quantity "inf"), except for up to two well-formed rows
LongTexts ==
    {Text(<<HeaderOf(UniversalLayout)>> \o
          [i \in 1..n |-> RowOf(UniversalLayout,
                                IF i \in {p, q} THEN GoodCells
                                ELSE [GoodCells EXCEPT !.qty = "inf"])]) :
        n \in (MaxLongRows - 2)..MaxLongRows, p \in 1..MaxLongRows, q \in 1..MaxLongRows}

\* a row of empty cells, a row with price 0 and a row without title, followed
\* by a well-formed row, under the unrecognised layout
GatedText ==
    Text(<< HeaderOf(UniversalLayout),
            RowOf(UniversalLayout, [r \in DOMAIN GoodCells |-> ""]),
            RowOf(UniversalLayout, [GoodCells EXCEPT !.price = "0"]),
            RowOf(UniversalLayout, [GoodCells EXCEPT !.title = "n/a"]),
            RowOf(UniversalLayout, GoodCells) >>)

\* the empty text, a value that is no string, texts that start with a blank
\* line, the text of gated rows
OtherTexts ==
    {Text(<< >>), [isStr |-> FALSE, lines |-> << >>], Text(<< << >> >>), GatedText}
    \cup {Text(<< << >>, HeaderOf(l), RowOf(l, GoodCells) >>) : l \in Layouts}

Texts == LayoutTexts \cup LongTexts \cup OtherTexts

(***************************************************************************)
(* parse_universal_csv as a function of the text                           *)
(***************************************************************************)

\* the loop `for row_num, row in enumerate(reader, start=2)` from the state
\* it has reached: the list it returns
RECURSIVE UniversalLoop(_, _, _, _, _, _)
UniversalLoop(text_lines, cm, at, acc, rows, errors) ==
    LET r == ReadNext(text_lines, at) IN
    IF r.tag = "end" THEN acc
    ELSE IF r.tag = "error" THEN << >>
    ELSE LET out == parse_universal_row(r.row, cm, rows + 2) IN
         IF out.tag = "item"
         THEN UniversalLoop(text_lines, cm, r.idx, Append(acc, out.item), rows + 1, errors)
         ELSE IF out.tag = "skip"
         THEN UniversalLoop(text_lines, cm, r.idx, acc, rows + 1, errors)
         ELSE IF errors + 1 > MaxRowErrors THEN acc
         ELSE UniversalLoop(text_lines, cm, r.idx, acc, rows + 1, errors + 1)

\* parse_universal_csv(io.StringIO(text), text)
parse_universal_csv(text_lines) ==
    IF text_lines = << >> THEN << >>
    ELSE IF LineRaises(text_lines[1]) \/ text_lines[1] = << >> THEN << >>
    ELSE UniversalLoop(text_lines, analyze_headers(text_lines[1]), 1, << >>, 0, 0)

(***************************************************************************)
(* Estimators and summary.  Prices are counted in hundredths, like msrp.   *)
(***************************************************************************)

Min(a, b) == IF a <= b THEN a ELSE b

Max(a, b) == IF a >= b THEN a ELSE b

\* round(num / den, 0), ties to the even neighbour
RoundDiv(num, den) ==
    LET q == num \div den
        r == num % den
    IN IF 2 * r < den THEN q
       ELSE IF 2 * r > den THEN q + 1
       ELSE IF q % 2 = 0 THEN q ELSE q + 1

RECURSIVE SumSeq(_)
SumSeq(q) == IF q = << >> THEN 0 ELSE Head(q) + SumSeq(Tail(q))

\* a key a dict does not have, and a value that is a string where a number
\* is expected
Missing == "<missing>"
NumMissing == [tag |-> "missing", val |-> 0]
NumText == [tag |-> "str", val |-> 0]

\* the estimate fields of an analysis dict; estimator names the function
\* that built it
Analysis(price, demand, sales_time, estimator) ==
    [estimatedSalePrice |-> price, demand |-> demand, salesTime |-> sales_time,
     estimator |-> estimator]

\* the if/elif chain of analyze_item_mock: keywords, percent of msrp, demand
\* and sales time
MockRules ==
    << [keywords |-> {"compressor", "vacuum", "pressure washer", "generator"},
        rate |-> 35, demand |-> "High", salesTime |-> "2-4 weeks"],
       [keywords |-> {"motor", "pump", "fan", "blower"},
        rate |-> 32, demand |-> "Medium", salesTime |-> "1-3 months"],
       [keywords |-> {"cabinet", "storage", "enclosure", "box"},
        rate |-> 25, demand |-> "Low", salesTime |-> "3-6 months"],
       [keywords |-> {"tool", "drill", "saw", "grinder"},
        rate |-> 40, demand |-> "High", salesTime |-> "1-2 weeks"],
       [keywords |-> {"heater", "cooler", "air", "ventilation"},
        rate |-> 28, demand |-> "Medium", salesTime |-> "2-4 months"],
       [keywords |-> {"tank", "drum", "container", "barrel"},
        rate |-> 20, demand |-> "Low", salesTime |-> "4-8 months"],
       [keywords |-> {},
        rate |-> 30, demand |-> "Medium", salesTime |-> "2-3 months"] >>

MockRule(title) ==
    LET hits == {i \in 1..(Len(MockRules) - 1) : AnyIn(MockRules[i].keywords, title)}
    IN IF hits = {} THEN MockRules[Len(MockRules)]
       ELSE MockRules[CHOOSE i \in hits : \A j \in hits : i <= j]

\* random.uniform(0.9, 1.1), in percent
JitterLow == 90
JitterHigh == 110
Jitters == {JitterLow, 100, JitterHigh}

\* the bounds of analyze_item_mock, in percent of msrp
FloorPercent == 15
CapPercent == 50

\* analyze_item_mock: the price before rounding is kept in units of
\* 1/10000 of a hundredth (msrp x percent x percent)
analyze_item_mock(item, jitter) ==
    LET msrp == IF item.msrp <= 0 THEN 100 * Scale ELSE item.msrp
        rule == MockRule(Lower(item.title))
        price == msrp * rule.rate * jitter
        floor == msrp * FloorPercent * 100
        cap == msrp * CapPercent * 100
        clamped == Min(Max(price, floor), cap)
    IN Analysis(Ok(RoundDiv(clamped, 100 * 100)), rule.demand, rule.salesTime, "mock")

\* what the eBay search request comes back with
EbayReply(kind, prices) == [kind |-> kind, prices |-> prices]

EbayReplies ==
    {EbayReply("request_error", << >>), EbayReply("http_error", << >>),
     EbayReply("unparseable", << >>), EbayReply("listing", << >>),
     EbayReply("listing", <<1000, 1200>>),
     EbayReply("listing", <<10000, 11000, 12000>>),
     EbayReply("listing", <<8000, 10000, 12400>>),
     EbayReply("listing", <<2000, 10000, 18000>>),
     EbayReply("listing", <<19000, 20000, 21000>>)}

\* search_ebay_sales_data: None unless the reply lists prices
search_ebay_sales_data(reply) ==
    IF reply.kind = "listing" /\ reply.prices # << >>
    THEN [tag |-> "data", total |-> SumSeq(reply.prices), sampleSize |-> Len(reply.prices),
          minPrice |-> CHOOSE x \in {reply.prices[i] : i \in DOMAIN reply.prices} :
                          \A i \in DOMAIN reply.prices : x <= reply.prices[i],
          maxPrice |-> CHOOSE x \in {reply.prices[i] : i \in DOMAIN reply.prices} :
                          \A i \in DOMAIN reply.prices : x >= reply.prices[i]]
    ELSE [tag |-> "None", total |-> 0, sampleSize |-> 0, minPrice |-> 0, maxPrice |-> 0]

\* the samples analyze_item_with_ebay_data asks for
MinSampleSize == 3

\* what the AI completion request comes back with: why it failed, or the
\* value json.loads made of the reply
AiReply(kind, isObject, price, demand, sales_time) ==
    [kind |-> kind, isObject |-> isObject, estimatedSalePrice |-> price, demand |-> demand,
     salesTime |-> sales_time]

AiReplies ==
    {AiReply(k, FALSE, NumMissing, Missing, Missing) :
        k \in {"no_key", "request_error", "http_error", "invalid_json", "no_choices"}}
    \cup {AiReply("value", FALSE, NumMissing, Missing, Missing),
          AiReply("value", TRUE, Ok(12000), "High", "2-4 weeks"),
          AiReply("value", TRUE, NumMissing, "High", "2-4 weeks"),
          AiReply("value", TRUE, NumText, "High", "2-4 weeks"),
          AiReply("value", TRUE, Ok(12000), Missing, "2-4 weeks"),
          AiReply("value", TRUE, Ok(12000), "High", Missing),
          AiReply("value", TRUE, Ok(12000), "High", "a few weeks")}

\* call_ai_api: raises, or returns the value of the reply
call_ai_api(reply) ==
    IF reply.kind = "value" THEN [tag |-> "ok", value |-> reply] ELSE [tag |-> "raise", value |-> reply]

\* analyze_item_with_ai: the reply of call_ai_api when adding the
\* marketplace key to it succeeds, analyze_item_mock otherwise
analyze_item_with_ai(item, ai, jitter) ==
    LET r == call_ai_api(ai) IN
    IF r.tag = "ok" /\ r.value.isObject
    THEN Analysis(r.value.estimatedSalePrice, r.value.demand, r.value.salesTime, "ai")
    ELSE analyze_item_mock(item, jitter)

\* analyze_item_with_ebay_data
analyze_item_with_ebay_data(item, ebay, ai, jitter) ==
    LET d == search_ebay_sales_data(ebay) IN
    IF d.tag = "data" /\ d.sampleSize >= MinSampleSize
    THEN LET spread == (d.maxPrice - d.minPrice) * d.sampleSize
             \* price_variance < x/10, as spread * 10 < x * total
             below(x) == d.total > 0 /\ spread * 10 < x * d.total
         IN Analysis(Ok(RoundDiv(d.total, d.sampleSize)),
                     IF below(3) THEN "High" ELSE IF below(6) THEN "Medium" ELSE "Low",
                     IF below(3) THEN "1-2 weeks" ELSE IF below(6) THEN "2-4 weeks"
                     ELSE "1-3 months",
                     "ebay")
    ELSE analyze_item_with_ai(item, ai, jitter)

\* re.findall(r'\d+', s)[0]: the first run of digits, "" when there is none
RECURSIVE FirstDigits(_, _)
FirstDigits(s, run) ==
    IF s = "" THEN run
    ELSE IF IsDigit(Head(s)) THEN FirstDigits(Tail(s), run \o Head(s))
    ELSE IF run = "" THEN FirstDigits(Tail(s), run)
    ELSE run

\* the weeks calculate_summary reads from a salesTime: a number, nothing
\* (neither 'week' nor 'month'), or an exception
SalesWeeks(sales_time) ==
    IF sales_time = Missing THEN [tag |-> "KeyError", val |-> 0]
    ELSE LET unit == IF Contains(Lower(sales_time), "week") THEN 1
                     ELSE IF Contains(Lower(sales_time), "month") THEN 4 ELSE 0
             digits == FirstDigits(sales_time, "")
         IN IF unit = 0 THEN NoneNum
            ELSE IF digits = "" THEN [tag |-> "IndexError", val |-> 0]
            ELSE Ok(ToNat(digits) * unit)

\* sum(price * 0.33) with the price of the manifest in place of the estimate
total_liquidation_cost_of_msrp(analysed) ==
    SumSeq([i \in 1..Len(analysed) |-> 33 * analysed[i].msrp])

\* total_liquidation_cost, in hundredths of a hundredth
total_liquidation_cost(analysed) ==
    SumSeq([i \in 1..Len(analysed) |-> 33 * analysed[i].analysis.estimatedSalePrice.val])

\* calculate_summary; totalProfit is in hundredths of a hundredth and
\* profitMargin the pair of a numerator and a denominator
calculate_summary(analysed) ==
    LET n == Len(analysed)
        total_msrp == SumSeq([i \in 1..n |-> analysed[i].msrp])
        revenue == SumSeq([i \in 1..n |-> analysed[i].analysis.estimatedSalePrice.val])
        cost == total_liquidation_cost(analysed)
        profit == 100 * revenue - cost
        weeks == [i \in 1..n |-> SalesWeeks(analysed[i].analysis.salesTime)]
        counted == {i \in 1..n : weeks[i].tag = "ok"}
        week_sum == SumSeq([i \in 1..n |-> IF i \in counted THEN weeks[i].val ELSE 0])
        high == Cardinality({i \in 1..n : analysed[i].analysis.demand = "High"})
    IN IF \E i \in 1..n : weeks[i].tag \in {"KeyError", "IndexError"}
       THEN [tag |-> "raise",
             details |-> weeks[CHOOSE i \in 1..n : weeks[i].tag \in {"KeyError", "IndexError"}
                                   /\ \A j \in 1..(i - 1) : weeks[j].tag \in {"ok", "None"}].tag]
       ELSE IF \E i \in 1..n : analysed[i].analysis.demand = Missing
       THEN [tag |-> "raise", details |-> "KeyError"]
       ELSE [tag |-> "ok",
             totalMsrp |-> total_msrp,
             projectedRevenue |-> revenue,
             totalProfit |-> profit,
             profitMargin |-> IF cost > 0 THEN <<profit, cost>> ELSE <<0, 1>>,
             avgSalesTime |-> IF counted = {} THEN "N/A"
                              ELSE ToString(RoundDiv(week_sum, Cardinality(counted))) \o " weeks",
             totalItems |-> n,
             recommendations |->
                 (IF cost > 0 /\ 10 * profit > 3 * cost THEN <<"High profit margin detected">>
                  ELSE << >>)
                 \o (IF 10 * revenue > 8 * total_msrp THEN <<"Strong resale potential">>
                     ELSE << >>)
                 \o (IF 10 * high > 3 * n THEN <<"Many high-demand items identified">>
                     ELSE << >>)]

\* the months of the revenue timeline
Months == 12

\* the timeline is counted in sixtieths of a hundredth, the unit in which
\* total_revenue * 0.7 / 6 and total_revenue * 0.3 / 6 are whole
TimelineScale == 60

\* monthly_revenue of month i of range(12): 70% of the revenue over the
\* first six months, 30% over the last six
monthly_revenue(total_revenue, i) ==
    IF i < 6 THEN total_revenue * 7 ELSE total_revenue * 3

\* the monthly revenues themselves, without accumulation
monthly_timeline(total_revenue) ==
    [k \in 1..Months |-> monthly_revenue(total_revenue, k - 1)]

\* revenue_timeline: the cumulative revenue after each month
revenue_timeline(total_revenue) ==
    [k \in 1..Months |-> SumSeq([i \in 1..k |-> monthly_revenue(total_revenue, i - 1)])]

\* the if/elif chain of generate_charts: keywords and category
ChartRules ==
    << [keywords |-> {"compressor", "vacuum", "pressure"}, category |-> "Air Tools"],
       [keywords |-> {"motor", "pump", "fan"}, category |-> "Motors & Pumps"],
       [keywords |-> {"cabinet", "storage", "enclosure"}, category |-> "Storage & Enclosures"],
       [keywords |-> {"jack", "lift", "crane"}, category |-> "Lifting Equipment"] >>

ChartCategory(title) ==
    LET hits == {i \in 1..Len(ChartRules) : AnyIn(ChartRules[i].keywords, title)}
    IN IF hits = {} THEN "Other"
       ELSE ChartRules[CHOOSE i \in hits : \A j \in hits : i <= j].category

\* categories[category] = categories.get(category, 0) + 1 over the items;
\* the dict keeps its keys in the order of their first insertion
RECURSIVE CountCategories(_, _)
CountCategories(analysed, categories) ==
    IF analysed = << >> THEN categories
    ELSE LET category == ChartCategory(Lower(Head(analysed).title))
             at == {j \in DOMAIN categories : categories[j].label = category}
         IN CountCategories(
                Tail(analysed),
                IF at = {} THEN Append(categories, [label |-> category, count |-> 1])
                ELSE [j \in DOMAIN categories |->
                         IF j \in at THEN [label |-> category, count |-> categories[j].count + 1]
                         ELSE categories[j]])

\* the dict generate_charts returns, for a given timeline
Charts(analysed, timeline) ==
    LET categories == CountCategories(analysed, << >>) IN
    [revenueTimeline |->
         [labels |-> [k \in 1..Months |-> "Month " \o ToString(k)], data |-> timeline],
     categoryBreakdown |->
         [labels |-> [j \in DOMAIN categories |-> categories[j].label],
          data |-> [j \in DOMAIN categories |-> categories[j].count]]]

\* generate_charts with the monthly revenues in place of the cumulative ones
generate_charts_monthly(analysed) ==
    Charts(analysed,
           monthly_timeline(SumSeq([i \in 1..Len(analysed) |->
                                       analysed[i].analysis.estimatedSalePrice.val])))

generate_charts(analysed) ==
    Charts(analysed,
           revenue_timeline(SumSeq([i \in 1..Len(analysed) |->
                                       analysed[i].analysis.estimatedSalePrice.val])))

(***************************************************************************)
(* Requests                                                                *)
(***************************************************************************)

\* the data lines of the manifests sent through lambda_handler
HandlerLines ==
    {RowOf(UniversalLayout, GoodCells),
     RowOf(UniversalLayout, [GoodCells EXCEPT !.title = "Steel Tank", !.price = "0.02"]),
     RowOf(UniversalLayout, [GoodCells EXCEPT !.price = "N/A"])}

\* the most data lines of a manifest sent through lambda_handler
MaxHandlerRows == 3

\* a manifest whose titles fall in the categories of generate_charts
ChartsText ==
    Text(<< HeaderOf(UniversalLayout),
            RowOf(UniversalLayout, [GoodCells EXCEPT !.title = "Vacuum Pump"]),
            RowOf(UniversalLayout, [GoodCells EXCEPT !.title = "Floor Jack"]),
            RowOf(UniversalLayout, [GoodCells EXCEPT !.title = "Air Compressor"]) >>)

HandlerTexts ==
    {Text(<<HeaderOf(UniversalLayout)>> \o rows) : rows \in SeqsUpTo(HandlerLines, MaxHandlerRows)}
    \cup {Text(<< >>), [isStr |-> FALSE, lines |-> << >>], ChartsText}

\* an invocation: of lambda_handler with an event, or of parse_manifest_csv
\* alone
Event(entry, httpMethod, db_env, body) ==
    [entry |-> entry, httpMethod |-> httpMethod, db_env |-> db_env, body |-> body]

DirectCall == Event("parse_manifest_csv", None, FALSE, "absent")

\* events without a file to parse: a preflight, a request in an environment
\* without the DB_* variables, a request without a body, one whose body is
\* no JSON
BareEvents ==
    {Event("lambda_handler", "OPTIONS", TRUE, "absent"),
     Event("lambda_handler", "POST", FALSE, "json"),
     Event("lambda_handler", "POST", TRUE, "absent"),
     Event("lambda_handler", "POST", TRUE, "invalid_json")}

FileEvent == Event("lambda_handler", "POST", TRUE, "json")

\* items[:2] are analysed by analyze_item_with_ebay_data
RichItems == 2

(***************************************************************************)
(* parse_manifest_csv as a state machine: one step per loop iteration      *)
(***************************************************************************)

VARIABLES
    csv_content,      \* the argument of parse_manifest_csv
    pc,               \* position in parse_manifest_csv
    dialect,          \* the extractor dispatched to
    pos,              \* lines consumed by the DictReader in use
    items,            \* the list `items` of the extractor that is running
    column_map,       \* the header mapping of the Universal path
    row_count,        \* rows the Universal loop has started
    error_count,      \* row-level exceptions the Universal loop has caught
    result,           \* the value parse_manifest_csv returns
    universal_calls,  \* history: calls of parse_universal_csv
    attempted,        \* history: lines whose row the Universal loop attempted
    raised,           \* history: the extractors that raised ("dialect", "universal")
    lost,             \* history: the list a failed dialect extractor had built
    event,            \* the invocation
    hpc,              \* position in lambda_handler
    items_with_analysis,  \* the list lambda_handler builds
    response,         \* the value lambda_handler returns
    charts,           \* the value of generate_charts
    mpc,              \* position in check_marketplace_availability
    elapsed,          \* seconds the running Future.result call has waited
    amazon_future,    \* the future of check_amazon_availability
    ebay_future,      \* the future of check_ebay_availability
    amazon_result,    \* the local amazon_result
    ebay_result,      \* the local ebay_result
    upc,              \* position in the uploader's lambda_handler
    s3_objects,       \* the objects put in the uploads bucket
    upload_items,     \* the list parse_grainger_csv returned to the uploader
    upload_response,  \* the value the uploader's lambda_handler returns
    upload_log        \* history: the calls the uploader made, in order

history == <<universal_calls, attempted, raised, lost>>

handler == <<event, hpc, items_with_analysis, response, charts>>

market == <<mpc, elapsed, amazon_future, ebay_future, amazon_result, ebay_result>>

uploader == <<upc, s3_objects, upload_items, upload_response, upload_log>>

vars == <<csv_content, pc, dialect, pos, items, column_map, row_count, error_count, result,
          history, handler, market, uploader>>

lines == csv_content.lines

InitWith(ev, text) ==
    /\ event = ev
    /\ hpc = IF ev.entry = "lambda_handler" THEN "start" ELSE "none"
    /\ items_with_analysis = << >>
    /\ response = None
    /\ charts = None
    /\ csv_content = text
    /\ pc = IF ev.entry = "parse_manifest_csv" THEN "start" ELSE "idle"
    /\ mpc = IF ev.entry = "check_marketplace_availability" THEN "call" ELSE "idle"
    /\ elapsed = 0
    /\ amazon_future = None
    /\ ebay_future = None
    /\ amazon_result = None
    /\ ebay_result = None
    /\ upc = IF ev.entry = "csv_uploader.lambda_handler" THEN "start" ELSE "idle"
    /\ s3_objects = << >>
    /\ upload_items = << >>
    /\ upload_response = None
    /\ upload_log = << >>
    /\ dialect = "none"
    /\ pos = 0
    /\ items = << >>
    /\ column_map = EmptyColumnMap
    /\ row_count = 0
    /\ error_count = 0
    /\ result = None
    /\ universal_calls = 0
    /\ attempted = << >>
    /\ raised = {}
    /\ lost = << >>

Init ==
    \/ \E text \in Texts : InitWith(DirectCall, text)
    \/ \E ev \in BareEvents : InitWith(ev, Text(<< >>))
    \/ \E text \in HandlerTexts : InitWith(FileEvent, text)

Return(value) ==
    /\ result' = value
    /\ pc' = "returned"

\* if not csv_content or not isinstance(csv_content, str): return []
RejectInput ==
    /\ pc = "start"
    /\ ~csv_content.isStr \/ lines = << >>
    /\ Return(<< >>)
    /\ UNCHANGED <<csv_content, dialect, pos, items, column_map, row_count, error_count>>
    /\ UNCHANGED history
    /\ UNCHANGED handler /\ UNCHANGED market /\ UNCHANGED uploader

\* the if/elif chain on header_line: a dialect extractor is called
DispatchDialect ==
    /\ pc = "start"
    /\ csv_content.isStr /\ lines # << >>
    /\ Classify(HeaderLine(lines)) # "universal"
    /\ dialect' = Classify(HeaderLine(lines))
    /\ pc' = "dialect"
    /\ UNCHANGED <<csv_content, pos, items, column_map, row_count, error_count, result>>
    /\ UNCHANGED history
    /\ UNCHANGED handler /\ UNCHANGED market /\ UNCHANGED uploader

\* the else branch calling parse_generic_product_format
DispatchUniversalToGeneric ==
    /\ pc = "start"
    /\ csv_content.isStr /\ lines # << >>
    /\ Classify(HeaderLine(lines)) = "universal"
    /\ dialect' = "generic_product"
    /\ pc' = "dialect"
    /\ UNCHANGED <<csv_content, pos, items, column_map, row_count, error_count, result>>
    /\ UNCHANGED history
    /\ UNCHANGED handler /\ UNCHANGED market /\ UNCHANGED uploader

\* the else branch: parse_universal_csv is called
DispatchUniversal ==
    /\ pc = "start"
    /\ csv_content.isStr /\ lines # << >>
    /\ Classify(HeaderLine(lines)) = "universal"
    /\ dialect' = "universal"
    /\ pc' = "universal_open"
    /\ universal_calls' = universal_calls + 1
    /\ UNCHANGED <<csv_content, pos, items, column_map, row_count, error_count, result>>
    /\ UNCHANGED <<attempted, raised, lost>>
    /\ UNCHANGED handler /\ UNCHANGED market /\ UNCHANGED uploader

\* a dialect extractor appends the record of the next row
DialectAppend ==
    /\ pc = "dialect"
    /\ LET r == ReadNext(lines, pos) IN
       /\ r.tag = "row"
       /\ LET out == DialectRow(dialect, r.row, Len(items)) IN
          /\ out.tag = "item"
          /\ items' = Append(items, out.item)
       /\ pos' = r.idx
    /\ UNCHANGED <<csv_content, pc, dialect, column_map, row_count, error_count, result>>
    /\ UNCHANGED history
    /\ UNCHANGED handler /\ UNCHANGED market /\ UNCHANGED uploader

\* a dialect extractor produces nothing for the next row
DialectSkip ==
    /\ pc = "dialect"
    /\ LET r == ReadNext(lines, pos) IN
       /\ r.tag = "row"
       /\ DialectRow(dialect, r.row, Len(items)).tag = "skip"
       /\ pos' = r.idx
    /\ UNCHANGED <<csv_content, pc, dialect, items, column_map, row_count, error_count, result>>
    /\ UNCHANGED history
    /\ UNCHANGED handler /\ UNCHANGED market /\ UNCHANGED uploader

\* a dialect extractor raises (csv.Error from the reader, AttributeError
\* from key.lower() on the key None): control reaches `except Exception`
DialectRaise ==
    /\ pc = "dialect"
    /\ LET r == ReadNext(lines, pos) IN
       \/ r.tag = "error"
       \/ r.tag = "row" /\ DialectRow(dialect, r.row, Len(items)).tag = "raise"
    /\ pc' = "except"
    /\ raised' = raised \cup {"dialect"}
    /\ lost' = items
    /\ UNCHANGED <<csv_content, dialect, pos, items, column_map, row_count, error_count, result>>
    /\ UNCHANGED <<universal_calls, attempted>>
    /\ UNCHANGED handler /\ UNCHANGED market /\ UNCHANGED uploader

\* a dialect extractor reaches the end of the text and returns its items
DialectReturn ==
    /\ pc = "dialect"
    /\ ReadNext(lines, pos).tag = "end"
    /\ Return(items)
    /\ UNCHANGED <<csv_content, dialect, pos, items, column_map, row_count, error_count>>
    /\ UNCHANGED history
    /\ UNCHANGED handler /\ UNCHANGED market /\ UNCHANGED uploader

\* the except handler with the Universal path appending to the list of the
\* failed extractor
ExceptFallbackKeepsItems ==
    /\ pc = "except"
    /\ pc' = "universal_open"
    /\ pos' = 0
    /\ universal_calls' = universal_calls + 1
    /\ UNCHANGED <<csv_content, dialect, items, column_map, row_count, error_count, result>>
    /\ UNCHANGED <<attempted, raised, lost>>
    /\ UNCHANGED handler /\ UNCHANGED market /\ UNCHANGED uploader

\* the except handler: parse_universal_csv on a fresh StringIO
ExceptFallback ==
    /\ pc = "except"
    /\ pc' = "universal_open"
    /\ pos' = 0
    /\ items' = << >>
    /\ universal_calls' = universal_calls + 1
    /\ UNCHANGED <<csv_content, dialect, column_map, row_count, error_count, result>>
    /\ UNCHANGED <<attempted, raised, lost>>
    /\ UNCHANGED handler /\ UNCHANGED market /\ UNCHANGED uploader

\* reader.fieldnames and analyze_headers
UniversalOpen ==
    /\ pc = "universal_open"
    /\ ~LineRaises(lines[1])
    /\ lines[1] # << >>
    /\ column_map' = analyze_headers(lines[1])
    /\ pos' = 1
    /\ row_count' = 0
    /\ error_count' = 0
    /\ pc' = "universal_rows"
    /\ UNCHANGED <<csv_content, dialect, items, result>>
    /\ UNCHANGED history
    /\ UNCHANGED handler /\ UNCHANGED market /\ UNCHANGED uploader

\* if not headers: return []
UniversalNoHeaders ==
    /\ pc = "universal_open"
    /\ ~LineRaises(lines[1])
    /\ lines[1] = << >>
    /\ Return(<< >>)
    /\ UNCHANGED <<csv_content, dialect, pos, items, column_map, row_count, error_count>>
    /\ UNCHANGED history
    /\ UNCHANGED handler /\ UNCHANGED market /\ UNCHANGED uploader

\* the reader raises csv.Error and nothing catches it
UniversalReaderErrorPropagates ==
    /\ \/ pc = "universal_open" /\ LineRaises(lines[1])
       \/ pc = "universal_rows" /\ ReadNext(lines, pos).tag = "error"
    /\ pc' = "propagated"
    /\ raised' = raised \cup {"universal"}
    /\ UNCHANGED <<csv_content, dialect, pos, items, column_map, row_count, error_count, result>>
    /\ UNCHANGED <<universal_calls, attempted, lost>>
    /\ UNCHANGED handler /\ UNCHANGED market /\ UNCHANGED uploader

\* the reader raises csv.Error: the outer except of parse_universal_csv
\* returns []
UniversalReaderError ==
    /\ \/ pc = "universal_open" /\ LineRaises(lines[1])
       \/ pc = "universal_rows" /\ ReadNext(lines, pos).tag = "error"
    /\ Return(<< >>)
    /\ raised' = raised \cup {"universal"}
    /\ UNCHANGED <<csv_content, dialect, pos, items, column_map, row_count, error_count>>
    /\ UNCHANGED <<universal_calls, attempted, lost>>
    /\ UNCHANGED handler /\ UNCHANGED market /\ UNCHANGED uploader

\* one iteration of the Universal loop that appends a record
UniversalRowItem ==
    /\ pc = "universal_rows"
    /\ LET r == ReadNext(lines, pos) IN
       /\ r.tag = "row"
       /\ LET out == parse_universal_row(r.row, column_map, row_count + 2) IN
          /\ out.tag = "item"
          /\ items' = Append(items, out.item)
       /\ pos' = r.idx
       /\ attempted' = Append(attempted, r.idx)
    /\ row_count' = row_count + 1
    /\ UNCHANGED <<csv_content, pc, dialect, column_map, error_count, result>>
    /\ UNCHANGED <<universal_calls, raised, lost>>
    /\ UNCHANGED handler /\ UNCHANGED market /\ UNCHANGED uploader

\* the skipped row counted in error_count as a raising row is
UniversalRowNoneCounted ==
    /\ pc = "universal_rows"
    /\ LET r == ReadNext(lines, pos) IN
       /\ r.tag = "row"
       /\ parse_universal_row(r.row, column_map, row_count + 2).tag = "skip"
       /\ pos' = r.idx
       /\ attempted' = Append(attempted, r.idx)
    /\ row_count' = row_count + 1
    /\ error_count' = error_count + 1
    /\ UNCHANGED <<csv_content, pc, dialect, items, column_map, result>>
    /\ UNCHANGED <<universal_calls, raised, lost>>
    /\ UNCHANGED handler /\ UNCHANGED market /\ UNCHANGED uploader

\* one iteration that skips a blank row or a row failing the validity gate
UniversalRowNone ==
    /\ pc = "universal_rows"
    /\ LET r == ReadNext(lines, pos) IN
       /\ r.tag = "row"
       /\ parse_universal_row(r.row, column_map, row_count + 2).tag = "skip"
       /\ pos' = r.idx
       /\ attempted' = Append(attempted, r.idx)
    /\ row_count' = row_count + 1
    /\ UNCHANGED <<csv_content, pc, dialect, items, column_map, error_count, result>>
    /\ UNCHANGED <<universal_calls, raised, lost>>
    /\ UNCHANGED handler /\ UNCHANGED market /\ UNCHANGED uploader

\* one iteration whose row raises: the exception is counted and the loop
\* continues
UniversalRowError ==
    /\ pc = "universal_rows"
    /\ LET r == ReadNext(lines, pos) IN
       /\ r.tag = "row"
       /\ parse_universal_row(r.row, column_map, row_count + 2).tag = "raise"
       /\ pos' = r.idx
       /\ attempted' = Append(attempted, r.idx)
    /\ error_count + 1 <= MaxRowErrors
    /\ row_count' = row_count + 1
    /\ error_count' = error_count + 1
    /\ UNCHANGED <<csv_content, pc, dialect, items, column_map, result>>
    /\ UNCHANGED <<universal_calls, raised, lost>>
    /\ UNCHANGED handler /\ UNCHANGED market /\ UNCHANGED uploader

\* the break returning [] in place of the items extracted so far
UniversalBreakDropsItems ==
    /\ pc = "universal_rows"
    /\ LET r == ReadNext(lines, pos) IN
       /\ r.tag = "row"
       /\ parse_universal_row(r.row, column_map, row_count + 2).tag = "raise"
       /\ pos' = r.idx
       /\ attempted' = Append(attempted, r.idx)
    /\ error_count + 1 > MaxRowErrors
    /\ row_count' = row_count + 1
    /\ error_count' = error_count + 1
    /\ Return(<< >>)
    /\ UNCHANGED <<csv_content, dialect, items, column_map>>
    /\ UNCHANGED <<universal_calls, raised, lost>>
    /\ UNCHANGED handler /\ UNCHANGED market /\ UNCHANGED uploader

\* one iteration whose row raises with error_count > 10: break, return items
UniversalBreak ==
    /\ pc = "universal_rows"
    /\ LET r == ReadNext(lines, pos) IN
       /\ r.tag = "row"
       /\ parse_universal_row(r.row, column_map, row_count + 2).tag = "raise"
       /\ pos' = r.idx
       /\ attempted' = Append(attempted, r.idx)
    /\ error_count + 1 > MaxRowErrors
    /\ row_count' = row_count + 1
    /\ error_count' = error_count + 1
    /\ Return(items)
    /\ UNCHANGED <<csv_content, dialect, items, column_map>>
    /\ UNCHANGED <<universal_calls, raised, lost>>
    /\ UNCHANGED handler /\ UNCHANGED market /\ UNCHANGED uploader

\* the Universal loop reaches the end of the text and returns its items
UniversalReturn ==
    /\ pc = "universal_rows"
    /\ ReadNext(lines, pos).tag = "end"
    /\ Return(items)
    /\ UNCHANGED <<csv_content, dialect, pos, items, column_map, row_count, error_count>>
    /\ UNCHANGED history
    /\ UNCHANGED handler /\ UNCHANGED market /\ UNCHANGED uploader

(***************************************************************************)
(* lambda_handler                                                          *)
(***************************************************************************)

parser == <<csv_content, pc, dialect, pos, items, column_map, row_count, error_count, result>>

Respond(statusCode, message, details, summary) ==
    /\ response' = [statusCode |-> statusCode, message |-> message, details |-> details,
                    summary |-> summary]
    /\ hpc' = "done"

\* the record lambda_handler appends for an item; profit is in hundredths
\* of a hundredth
Analysed(item, analysis) ==
    [item_number |-> item.item_number, title |-> item.title, msrp |-> item.msrp,
     quantity |-> item.quantity, notes |-> item.notes, pallet |-> item.pallet,
     analysis |-> analysis, profit |-> 67 * analysis.estimatedSalePrice.val]

\* the OPTIONS branch
HandlerPreflight ==
    /\ hpc = "start"
    /\ event.httpMethod = "OPTIONS"
    /\ Respond(200, "CORS preflight successful", None, None)
    /\ UNCHANGED <<event, charts, items_with_analysis>>
    /\ UNCHANGED parser /\ UNCHANGED history /\ UNCHANGED market /\ UNCHANGED uploader

\* os.environ['DB_HOST'] raises KeyError: the outer except answers 500
HandlerEnvironmentError ==
    /\ hpc = "start"
    /\ event.httpMethod # "OPTIONS"
    /\ ~event.db_env
    /\ Respond(500, "Internal server error", "KeyError", None)
    /\ UNCHANGED <<event, charts, items_with_analysis>>
    /\ UNCHANGED parser /\ UNCHANGED history /\ UNCHANGED market /\ UNCHANGED uploader

\* json.loads(body) raises JSONDecodeError
HandlerInvalidJson ==
    /\ hpc = "start"
    /\ event.httpMethod # "OPTIONS"
    /\ event.db_env
    /\ event.body = "invalid_json"
    /\ Respond(400, "Invalid JSON body", None, None)
    /\ UNCHANGED <<event, charts, items_with_analysis>>
    /\ UNCHANGED parser /\ UNCHANGED history /\ UNCHANGED market /\ UNCHANGED uploader

\* if not file_content
HandlerNoFile ==
    /\ hpc = "start"
    /\ event.httpMethod # "OPTIONS"
    /\ event.db_env
    /\ \/ event.body = "absent"
       \/ event.body = "json" /\ csv_content.isStr /\ lines = << >>
    /\ Respond(400, "No file content provided", None, None)
    /\ UNCHANGED <<event, charts, items_with_analysis>>
    /\ UNCHANGED parser /\ UNCHANGED history /\ UNCHANGED market /\ UNCHANGED uploader

\* items = parse_manifest_csv(file_content): the call
HandlerParse ==
    /\ hpc = "start"
    /\ event.httpMethod # "OPTIONS"
    /\ event.db_env
    /\ event.body = "json"
    /\ ~(csv_content.isStr /\ lines = << >>)
    /\ hpc' = "parsing"
    /\ pc' = "start"
    /\ UNCHANGED <<csv_content, dialect, pos, items, column_map, row_count, error_count, result>>
    /\ UNCHANGED <<event, charts, items_with_analysis, response>>
    /\ UNCHANGED history /\ UNCHANGED market /\ UNCHANGED uploader

\* lambda_handler without the `if not items` return
HandlerNoItemsGoesOn ==
    /\ hpc = "parsing"
    /\ pc = "returned"
    /\ result = << >>
    /\ hpc' = "estimate"
    /\ items_with_analysis' = << >>
    /\ UNCHANGED <<event, charts, response>>
    /\ UNCHANGED parser /\ UNCHANGED history /\ UNCHANGED market /\ UNCHANGED uploader

\* if not items
HandlerNoItems ==
    /\ hpc = "parsing"
    /\ pc = "returned"
    /\ result = << >>
    /\ Respond(400, "No valid items found in CSV", None, None)
    /\ UNCHANGED <<event, charts, items_with_analysis>>
    /\ UNCHANGED parser /\ UNCHANGED history /\ UNCHANGED market /\ UNCHANGED uploader

\* the file hash, the disabled cache lookup, items_with_analysis = []
HandlerItems ==
    /\ hpc = "parsing"
    /\ pc = "returned"
    /\ result # << >>
    /\ hpc' = "estimate"
    /\ items_with_analysis' = << >>
    /\ UNCHANGED <<event, charts, response>>
    /\ UNCHANGED parser /\ UNCHANGED history /\ UNCHANGED market /\ UNCHANGED uploader

\* one iteration of `for item in items_to_process`
HandlerAnalyzeItem ==
    /\ hpc = "estimate"
    /\ Len(items_with_analysis) < Min(RichItems, Len(result))
    /\ \E ebay \in EbayReplies, ai \in AiReplies, jitter \in Jitters :
          LET item == result[Len(items_with_analysis) + 1]
              analysis == analyze_item_with_ebay_data(item, ebay, ai, jitter)
          IN /\ analysis.estimatedSalePrice.tag = "ok"
             /\ items_with_analysis' = Append(items_with_analysis, Analysed(item, analysis))
    /\ UNCHANGED <<event, charts, hpc, response>>
    /\ UNCHANGED parser /\ UNCHANGED history /\ UNCHANGED market /\ UNCHANGED uploader

\* an iteration in which analysis['estimatedSalePrice'] * 0.33 raises
\* (KeyError without the key, TypeError for a string): the outer except
\* answers 500
HandlerAnalyzeItemRaises ==
    /\ hpc = "estimate"
    /\ Len(items_with_analysis) < Min(RichItems, Len(result))
    /\ \E ebay \in EbayReplies, ai \in AiReplies, jitter \in Jitters :
          LET item == result[Len(items_with_analysis) + 1]
              analysis == analyze_item_with_ebay_data(item, ebay, ai, jitter)
          IN /\ analysis.estimatedSalePrice.tag # "ok"
             /\ Respond(500, "Internal server error",
                        IF analysis.estimatedSalePrice.tag = "missing" THEN "KeyError"
                        ELSE "TypeError", None)
    /\ UNCHANGED <<event, charts, items_with_analysis>>
    /\ UNCHANGED parser /\ UNCHANGED history /\ UNCHANGED market /\ UNCHANGED uploader

\* the remaining items estimated like the first ones, through
\* analyze_item_with_ebay_data
HandlerMockItemRich ==
    /\ hpc = "estimate"
    /\ Len(items_with_analysis) >= RichItems
    /\ Len(items_with_analysis) < Len(result)
    /\ \E ebay \in EbayReplies, ai \in AiReplies, jitter \in Jitters :
          LET item == result[Len(items_with_analysis) + 1]
              analysis == analyze_item_with_ebay_data(item, ebay, ai, jitter)
          IN /\ analysis.estimatedSalePrice.tag = "ok"
             /\ items_with_analysis' = Append(items_with_analysis, Analysed(item, analysis))
    /\ UNCHANGED <<event, charts, hpc, response>>
    /\ UNCHANGED parser /\ UNCHANGED history /\ UNCHANGED market /\ UNCHANGED uploader

\* one iteration of `for item in remaining_items`
HandlerMockItem ==
    /\ hpc = "estimate"
    /\ Len(items_with_analysis) >= RichItems
    /\ Len(items_with_analysis) < Len(result)
    /\ \E jitter \in Jitters :
          LET item == result[Len(items_with_analysis) + 1]
          IN items_with_analysis' =
                 Append(items_with_analysis, Analysed(item, analyze_item_mock(item, jitter)))
    /\ UNCHANGED <<event, charts, hpc, response>>
    /\ UNCHANGED parser /\ UNCHANGED history /\ UNCHANGED market /\ UNCHANGED uploader

\* calculate_summary, generate_charts and the 200 response
HandlerRespond ==
    /\ hpc = "estimate"
    /\ Len(items_with_analysis) = Len(result)
    /\ LET summary == calculate_summary(items_with_analysis) IN
       /\ summary.tag = "ok"
       /\ Respond(200, "analysis", None, summary)
    /\ charts' = generate_charts(items_with_analysis)
    /\ UNCHANGED <<event, items_with_analysis>>
    /\ UNCHANGED parser /\ UNCHANGED history /\ UNCHANGED market /\ UNCHANGED uploader

\* calculate_summary raises: the outer except answers 500
HandlerSummaryRaises ==
    /\ hpc = "estimate"
    /\ Len(items_with_analysis) = Len(result)
    /\ LET summary == calculate_summary(items_with_analysis) IN
       /\ summary.tag = "raise"
       /\ Respond(500, "Internal server error", summary.details, None)
    /\ UNCHANGED <<event, charts, items_with_analysis>>
    /\ UNCHANGED parser /\ UNCHANGED history /\ UNCHANGED market /\ UNCHANGED uploader

Next ==
    \/ RejectInput
    \/ DispatchDialect
    \/ DispatchUniversal
    \/ DialectAppend
    \/ DialectSkip
    \/ DialectRaise
    \/ DialectReturn
    \/ ExceptFallback
    \/ UniversalOpen
    \/ UniversalNoHeaders
    \/ UniversalReaderError
    \/ UniversalRowItem
    \/ UniversalRowNone
    \/ UniversalRowError
    \/ UniversalBreak
    \/ UniversalReturn
    \/ HandlerPreflight
    \/ HandlerEnvironmentError
    \/ HandlerInvalidJson
    \/ HandlerNoFile
    \/ HandlerParse
    \/ HandlerNoItems
    \/ HandlerItems
    \/ HandlerAnalyzeItem
    \/ HandlerAnalyzeItemRaises
    \/ HandlerMockItem
    \/ HandlerRespond
    \/ HandlerSummaryRaises

Spec == Init /\ [][Next]_vars

(***************************************************************************)
(* check_marketplace_availability: the caller and its two pool threads.    *)
(* A future is None before submit, "running" while its lookup runs, and    *)
(* holds the lookup's return value once the lookup has finished.           *)
(***************************************************************************)

\* both lookups catch every exception and return this dictionary
Unavailable == "unavailable"

LookupResults == {"available", Unavailable}

\* timeout=5 of amazon_future.result and of ebay_future.result
ResultTimeout == 5

MarketCall == Event("check_marketplace_availability", None, FALSE, "absent")

MarketInit == InitWith(MarketCall, Text(<< >>))

Parked ==
    UNCHANGED parser /\ UNCHANGED history /\ UNCHANGED handler /\ UNCHANGED uploader

\* the two executor.submit calls: max_workers=2, so both lookups start
MarketSubmit ==
    /\ mpc = "call"
    /\ amazon_future' = "running"
    /\ ebay_future' = "running"
    /\ mpc' = "amazon_result"
    /\ elapsed' = 0
    /\ UNCHANGED <<amazon_result, ebay_result>>
    /\ Parked

\* check_amazon_availability returns in its pool thread
AmazonLookupReturns ==
    /\ amazon_future = "running"
    /\ \E r \in LookupResults : amazon_future' = r
    /\ UNCHANGED <<mpc, elapsed, ebay_future, amazon_result, ebay_result>>
    /\ Parked

\* check_ebay_availability returns in its pool thread
EbayLookupReturns ==
    /\ ebay_future = "running"
    /\ \E r \in LookupResults : ebay_future' = r
    /\ UNCHANGED <<mpc, elapsed, amazon_future, amazon_result, ebay_result>>
    /\ Parked

\* a second passes while the caller is blocked in Future.result
Tick ==
    /\ \/ mpc = "amazon_result" /\ amazon_future = "running"
       \/ mpc = "ebay_result" /\ ebay_future = "running"
    /\ elapsed < ResultTimeout
    /\ elapsed' = elapsed + 1
    /\ UNCHANGED <<mpc, amazon_future, ebay_future, amazon_result, ebay_result>>
    /\ Parked

\* amazon_result = amazon_future.result(timeout=5)
AmazonResult ==
    /\ mpc = "amazon_result"
    /\ amazon_future \in LookupResults
    /\ amazon_result' = amazon_future
    /\ mpc' = "ebay_result"
    /\ elapsed' = 0
    /\ UNCHANGED <<amazon_future, ebay_future, ebay_result>>
    /\ Parked

\* except concurrent.futures.TimeoutError (the Amazon future)
AmazonTimeout ==
    /\ mpc = "amazon_result"
    /\ amazon_future = "running"
    /\ elapsed = ResultTimeout
    /\ amazon_result' = Unavailable
    /\ mpc' = "ebay_result"
    /\ elapsed' = 0
    /\ UNCHANGED <<amazon_future, ebay_future, ebay_result>>
    /\ Parked

\* ebay_result = ebay_future.result(timeout=5); the with block is left next
EbayResult ==
    /\ mpc = "ebay_result"
    /\ ebay_future \in LookupResults
    /\ ebay_result' = ebay_future
    /\ mpc' = "shutdown"
    /\ elapsed' = 0
    /\ UNCHANGED <<amazon_future, ebay_future, amazon_result>>
    /\ Parked

\* except concurrent.futures.TimeoutError (the eBay future)
EbayTimeout ==
    /\ mpc = "ebay_result"
    /\ ebay_future = "running"
    /\ elapsed = ResultTimeout
    /\ ebay_result' = Unavailable
    /\ mpc' = "shutdown"
    /\ elapsed' = 0
    /\ UNCHANGED <<amazon_future, ebay_future, amazon_result>>
    /\ Parked

\* the end of the with block, ThreadPoolExecutor.__exit__, is
\* shutdown(wait=True): it joins both pool threads, and the return
\* statement follows it
MarketReturn ==
    /\ mpc = "shutdown"
    /\ amazon_future \in LookupResults
    /\ ebay_future \in LookupResults
    /\ mpc' = "returned"
    /\ UNCHANGED <<elapsed, amazon_future, ebay_future, amazon_result, ebay_result>>
    /\ Parked

MarketNext ==
    \/ MarketSubmit
    \/ AmazonLookupReturns
    \/ EbayLookupReturns
    \/ Tick
    \/ AmazonResult
    \/ AmazonTimeout
    \/ EbayResult
    \/ EbayTimeout
    \/ MarketReturn

MarketSpec == MarketInit /\ [][MarketNext]_vars

(***************************************************************************)
(* csv_uploader.py: parse_grainger_csv and lambda_handler                  *)
(***************************************************************************)

\* s.replace('$', '').replace(',', '')
RECURSIVE WithoutSymbols(_)
WithoutSymbols(s) ==
    IF s = "" THEN ""
    ELSE (IF Head(s) \in {"$", ","} THEN "" ELSE Head(s)) \o WithoutSymbols(Tail(s))

\* row.get(key): None for a key the row lacks
RowGet(row, key) == IF key \in Keys(row) THEN Get(row, key) ELSE None

\* row.get(key, '').strip() if row.get(key) else None
RowGetStripped(row, key) ==
    IF Truthy(RowGet(row, key)) THEN Strip(RowGet(row, key)) ELSE None

\* float(msrp_str) if msrp_str else 0.0, with ValueError giving 0.0
UploadPrice(msrp_str) ==
    LET f == PyFloat(msrp_str) IN
    IF msrp_str = "" \/ f.tag = "ValueError" THEN Ok(0) ELSE f

\* msrp > 0, for a float that may be infinite or not a number
Positive(msrp_str, msrp) ==
    \/ msrp.tag = "ok" /\ msrp.val > 0
    \/ msrp.tag = "inf" /\ Head(msrp_str) # "-"

\* the body of `for row in reader` of parse_grainger_csv
parse_grainger_csv_row(row) ==
    IF ~Truthy(RowGet(row, "Grainger item #")) \/ ~Truthy(RowGet(row, "title line")) THEN Skip
    ELSE LET cell == IF "msrp - grainger" \in Keys(row) THEN Get(row, "msrp - grainger")
                     ELSE "0"
         IN IF cell = None THEN Raise
            ELSE LET msrp_str == Strip(WithoutSymbols(cell))
                     msrp == UploadPrice(msrp_str)
                 IN IF Positive(msrp_str, msrp)
                    THEN Emit([item_number |-> Strip(Get(row, "Grainger item #")),
                               title |-> Strip(Get(row, "title line")),
                               msrp |-> msrp,
                               notes |-> RowGetStripped(row, "notes"),
                               pallet |-> RowGetStripped(row, "pallet")])
                    ELSE Skip

\* the loop of parse_grainger_csv from the state it has reached; an
\* exception of the reader or of a row ends it and the items built so far
\* are returned
RECURSIVE GraingerCsvLoop(_, _, _)
GraingerCsvLoop(text_lines, at, acc) ==
    LET r == ReadNext(text_lines, at) IN
    IF r.tag # "row" THEN acc
    ELSE LET out == parse_grainger_csv_row(r.row) IN
         IF out.tag = "raise" THEN acc
         ELSE GraingerCsvLoop(text_lines, r.idx,
                              IF out.tag = "item" THEN Append(acc, out.item) ELSE acc)

parse_grainger_csv(text_lines) ==
    IF text_lines = << >> THEN << >> ELSE GraingerCsvLoop(text_lines, 0, << >>)

\* the data lines of the files sent to the uploader: well-formed, price
\* 'N/A', no identifier, one cell short, one cell long, an oversized field
UploadLines ==
    LET layout == DocumentedLayout["grainger"] IN
    {RowOf(layout, GoodCells),
     RowOf(layout, [GoodCells EXCEPT !.price = "N/A"]),
     RowOf(layout, [GoodCells EXCEPT !.id = ""]),
     SubSeq(RowOf(layout, GoodCells), 1, Len(layout) - 1),
     RowOf(layout, GoodCells) \o <<"extra">>,
     <<HugeField>>}

\* the most data lines of a file sent to the uploader
MaxUploadRows == 2

\* files under the Grainger header, a file under another header, the empty
\* string and a value that is no string
UploadTexts ==
    {Text(<<HeaderOf(DocumentedLayout["grainger"])>> \o rows) :
        rows \in SeqsUpTo(UploadLines, MaxUploadRows)}
    \cup {Text(<<HeaderOf(UniversalLayout), RowOf(UniversalLayout, GoodCells)>>),
          Text(<< >>), [isStr |-> FALSE, lines |-> << >>]}

UploaderEntry == "csv_uploader.lambda_handler"

\* events without a file: a preflight, a request in an environment without
\* the DB_* variables, a request without a body, one whose body is no JSON
BareUploads ==
    {Event(UploaderEntry, "OPTIONS", TRUE, "absent"),
     Event(UploaderEntry, "POST", FALSE, "json"),
     Event(UploaderEntry, "POST", TRUE, "absent"),
     Event(UploaderEntry, "POST", TRUE, "invalid_json")}

FileUpload == Event(UploaderEntry, "POST", TRUE, "json")

UploaderInit ==
    \/ \E ev \in BareUploads : InitWith(ev, Text(<< >>))
    \/ \E text \in UploadTexts : InitWith(FileUpload, text)

\* the uploader leaves the state of the processor alone
Aside ==
    UNCHANGED parser /\ UNCHANGED history /\ UNCHANGED handler /\ UNCHANGED market

UploaderRespond(statusCode, message, totalItems) ==
    /\ upload_response' = [statusCode |-> statusCode, message |-> message,
                           totalItems |-> totalItems]
    /\ upc' = "done"

\* the OPTIONS branch
UploaderPreflight ==
    /\ upc = "start"
    /\ event.httpMethod = "OPTIONS"
    /\ UploaderRespond(200, "CORS preflight successful", 0)
    /\ UNCHANGED <<s3_objects, upload_items, upload_log>>
    /\ Aside

\* os.environ['DB_HOST'] raises KeyError: the outer except answers 500
UploaderEnvironmentError ==
    /\ upc = "start"
    /\ event.httpMethod # "OPTIONS"
    /\ ~event.db_env
    /\ UploaderRespond(500, "Internal server error", 0)
    /\ UNCHANGED <<s3_objects, upload_items, upload_log>>
    /\ Aside

\* json.loads raises JSONDecodeError
UploaderInvalidJson ==
    /\ upc = "start"
    /\ event.httpMethod # "OPTIONS"
    /\ event.db_env
    /\ event.body = "invalid_json"
    /\ UploaderRespond(400, "Invalid JSON body", 0)
    /\ UNCHANGED <<s3_objects, upload_items, upload_log>>
    /\ Aside

\* if not file_content: no body, or an empty 'file'
UploaderNoFile ==
    /\ upc = "start"
    /\ event.httpMethod # "OPTIONS"
    /\ event.db_env
    /\ \/ event.body = "absent"
       \/ event.body = "json" /\ csv_content.isStr /\ lines = << >>
    /\ UploaderRespond(400, "No file content provided", 0)
    /\ UNCHANGED <<s3_objects, upload_items, upload_log>>
    /\ Aside

\* file_content.encode('utf-8') raises for a value that is no string: the
\* except around put_object answers 500 before the call is made
UploaderEncodeRaises ==
    /\ upc = "start"
    /\ event.httpMethod # "OPTIONS"
    /\ event.db_env
    /\ event.body = "json"
    /\ ~csv_content.isStr
    /\ UploaderRespond(500, "Failed to upload to S3", 0)
    /\ UNCHANGED <<s3_objects, upload_items, upload_log>>
    /\ Aside

\* the file goes on to parse_grainger_csv with no object put in the bucket
UploaderPutObjectSkipped ==
    /\ upc = "start"
    /\ event.httpMethod # "OPTIONS"
    /\ event.db_env
    /\ event.body = "json"
    /\ csv_content.isStr /\ lines # << >>
    /\ upc' = "parse"
    /\ UNCHANGED <<s3_objects, upload_items, upload_response, upload_log>>
    /\ Aside

\* s3_client.put_object stores the file
UploaderPutObject ==
    /\ upc = "start"
    /\ event.httpMethod # "OPTIONS"
    /\ event.db_env
    /\ event.body = "json"
    /\ csv_content.isStr /\ lines # << >>
    /\ s3_objects' = Append(s3_objects, [Body |-> lines, ContentType |-> "text/csv"])
    /\ upload_log' = Append(upload_log, "put_object")
    /\ upc' = "parse"
    /\ UNCHANGED <<upload_items, upload_response>>
    /\ Aside

\* s3_client.put_object raises: nothing is stored and the answer is 500
UploaderPutObjectRaises ==
    /\ upc = "start"
    /\ event.httpMethod # "OPTIONS"
    /\ event.db_env
    /\ event.body = "json"
    /\ csv_content.isStr /\ lines # << >>
    /\ upload_log' = Append(upload_log, "put_object")
    /\ UploaderRespond(500, "Failed to upload to S3", 0)
    /\ UNCHANGED <<s3_objects, upload_items>>
    /\ Aside

\* items = parse_grainger_csv(file_content)
UploaderParse ==
    /\ upc = "parse"
    /\ upload_items' = parse_grainger_csv(lines)
    /\ upload_log' = Append(upload_log, "parse_grainger_csv")
    /\ upc' = "parsed"
    /\ UNCHANGED <<s3_objects, upload_response>>
    /\ Aside

\* if not items
UploaderNoItems ==
    /\ upc = "parsed"
    /\ upload_items = << >>
    /\ UploaderRespond(400, "No valid items found in CSV", 0)
    /\ UNCHANGED <<s3_objects, upload_items, upload_log>>
    /\ Aside

\* the try block around the upload record: get_db_connection returns None,
\* so nothing is inserted
UploaderStoreRecord ==
    /\ upc = "parsed"
    /\ upload_items # << >>
    /\ upload_log' = Append(upload_log, "get_db_connection")
    /\ upc' = "respond"
    /\ UNCHANGED <<s3_objects, upload_items, upload_response>>
    /\ Aside

\* the 200 response with the item count
UploaderReturn ==
    /\ upc = "respond"
    /\ UploaderRespond(200, "CSV uploaded successfully. Processing will begin shortly.",
                       Len(upload_items))
    /\ UNCHANGED <<s3_objects, upload_items, upload_log>>
    /\ Aside

UploaderNext ==
    \/ UploaderPreflight
    \/ UploaderEnvironmentError
    \/ UploaderInvalidJson
    \/ UploaderNoFile
    \/ UploaderEncodeRaises
    \/ UploaderPutObject
    \/ UploaderPutObjectRaises
    \/ UploaderParse
    \/ UploaderNoItems
    \/ UploaderStoreRecord
    \/ UploaderReturn

UploaderSpec == UploaderInit /\ [][UploaderNext]_vars

(***************************************************************************)
(* Properties of parse_manifest_csv                                        *)
(***************************************************************************)

\* the title and price variables of a dialect extractor after its loop over
\* row.items()
TitleOf(tag, row) ==
    AssignedText(row, Branches(row, tag),
                 CASE tag \in {"grainger", "liquidation", "generic_product", "parts"} -> "title"
                   [] tag \in {"staples", "electronics", "costco"} -> "description"
                   [] tag = "direct_liquidation" -> "item_title"
                   [] tag = "department_store" -> "product_name")

MsrpOf(tag, row) == AssignedPrice(row, Branches(row, tag), "msrp")

\* parse_manifest_csv has returned and its caller has not gone on
Returned == pc = "returned" /\ hpc \in {"none", "parsing"}

\* parse_manifest_csv has been called and has not returned
Running == pc \notin {"idle", "returned"}

\* the value parse_manifest_csv returns is a list, empty for an empty or
\* non-string input and whenever the Universal path failed
ReturnsList ==
    /\ Returned => result # None
    /\ (Returned /\ (~csv_content.isStr \/ lines = << >>)) => result = << >>
    /\ (Returned /\ "universal" \in raised) => result = << >>

\* a statement of parse_manifest_csv applies at the current position: what
\* the reader or an extractor does there, raising included, has a
\* continuation inside the function
CanStep ==
    \/ pc = "start"
    \/ /\ pc = "dialect"
       /\ LET r == ReadNext(lines, pos) IN
          \/ r.tag \in {"end", "error"}
          \/ r.tag = "row"
             /\ DialectRow(dialect, r.row, Len(items)).tag \in {"item", "skip", "raise"}
    \/ pc = "except"
    \/ pc = "universal_open"
    \/ /\ pc = "universal_rows"
       /\ LET r == ReadNext(lines, pos) IN
          \/ r.tag \in {"end", "error"}
          \/ r.tag = "row"
             /\ parse_universal_row(r.row, column_map, row_count + 2).tag
                    \in {"item", "skip", "raise"}

\* C1: parse_manifest_csv never raises.  Between its call and its return
\* every position has a continuation inside the function (each exception
\* is caught), the value returned is a list, and it is the empty list for
\* an empty or non-string input and whenever the Universal path failed.
C1_NeverRaises == (Running => CanStep) /\ ReturnsList

\* the dialect extractor raised after extracting a record, the Universal
\* retry raised too, and the empty list was returned
C1_Witness ==
    /\ Returned
    /\ raised = {"dialect", "universal"}
    /\ lost # << >>
    /\ result = << >>

\* C2: every record of the returned list has a non-empty title and
\* msrp > 0.
C2_RecordsValid ==
    Returned => \A i \in 1..Len(result) : Truthy(result[i].title) /\ result[i].msrp > 0

\* two records returned by a dialect extractor
C2_Witness ==
    /\ Returned
    /\ dialect = "liquidation"
    /\ raised = {}
    /\ Len(result) = 2

\* C3: a text whose header is the one documented for a vendor dialect is
\* dispatched to that dialect's extractor.
C3_DocumentedHeaderRoutesToItsDialect ==
    \A d \in DOMAIN DocumentedLayout :
        (dialect # "none" /\ lines[1] = HeaderOf(DocumentedLayout[d])) => dialect = d

\* C4: in every extractor a non-blank row yields a record exactly when its
\* title is present and its price parses to a value > 0, whether or not it
\* has an identifier.
C4_SurvivesIffTitleAndPrice ==
    /\ pc = "dialect" =>
          LET r == ReadNext(lines, pos) IN
          (r.tag = "row" /\ ~SkipsRow(r.row) /\ ~HasRestKey(r.row)) =>
              (DialectRow(dialect, r.row, Len(items)).tag = "item"
                  <=> (Truthy(TitleOf(dialect, r.row)) /\ TruthyNum(MsrpOf(dialect, r.row))))
    /\ pc = "universal_rows" =>
          LET r == ReadNext(lines, pos) IN
          (r.tag = "row" /\ ~SkipsRowUniversal(r.row)
                /\ parse_universal_row(r.row, column_map, row_count + 2).tag # "raise") =>
              (parse_universal_row(r.row, column_map, row_count + 2).tag = "item"
                  <=> /\ Truthy(MappedCell(r.row, column_map, "title"))
                      /\ MappedCell(r.row, column_map, "msrp") # None
                      /\ TruthyNum(ParsePrice(MappedCell(r.row, column_map, "msrp"))))

\* C5: when the dialect extractor raises, the Universal path runs exactly
\* once, on a fresh reader over the same text, and its result is returned;
\* when it raises too the empty list is returned.
C5_FallbackOnceOnFreshReader ==
    /\ universal_calls <= 1
    /\ "dialect" \in raised /\ pc # "except" => universal_calls = 1
    /\ (Returned /\ "dialect" \in raised) => result = parse_universal_csv(lines)
    /\ (Returned /\ raised = {"dialect", "universal"}) => result = << >>

\* a dialect extractor raised after extracting one record and the retry
\* returned two
C5_Witness ==
    /\ Returned
    /\ raised = {"dialect"}
    /\ Len(lost) = 1
    /\ Len(result) = 2

\* C6: no dialect extractor raises because of a row.
C6_NoRaiseOnMalformedRow ==
    pc = "dialect" =>
        LET r == ReadNext(lines, pos) IN
        r.tag = "row" => DialectRow(dialect, r.row, Len(items)).tag # "raise"

\* the k-th row the Universal loop attempted raises
AttemptRaises(k) ==
    parse_universal_row(DictRow(lines[1], lines[attempted[k]]), column_map, k + 1).tag = "raise"

\* the records of the first k rows the Universal loop attempted
RECURSIVE AttemptRecords(_)
AttemptRecords(k) ==
    IF k = 0 THEN << >>
    ELSE LET out == parse_universal_row(DictRow(lines[1], lines[attempted[k]]), column_map, k + 1)
         IN AttemptRecords(k - 1) \o (IF out.tag = "item" THEN <<out.item>> ELSE << >>)

\* C7: the Universal loop attempts the rows in order and counts each row
\* exception; at the 11th the loop is over: no further row is attempted and
\* the records of the rows before it are returned.
C7_BreakerStopsAtEleventh ==
    /\ \A k \in 1..Len(attempted) :
          attempted[k] = SkipBlank(lines, IF k = 1 THEN 2 ELSE attempted[k - 1] + 1)
    /\ error_count = Cardinality({k \in 1..Len(attempted) : AttemptRaises(k)})
    /\ error_count <= MaxRowErrors + 1
    /\ error_count > MaxRowErrors =>
          /\ Returned
          /\ AttemptRaises(Len(attempted))
          /\ result = AttemptRecords(Len(attempted))

\* the 11th exception ended the loop with a well-formed row left unread and
\* one record returned
C7_Witness ==
    /\ Returned
    /\ error_count = MaxRowErrors + 1
    /\ Len(result) = 1
    /\ attempted[Len(attempted)] < Len(lines)
    /\ lines[Len(lines)] = RowOf(UniversalLayout, GoodCells)

\* C8: for a text whose header line matches no dialect keyword,
\* parse_manifest_csv returns the list parse_universal_csv returns for it.
C8_UnmatchedEqualsUniversal ==
    (Returned /\ csv_content.isStr /\ Classify(HeaderLine(lines)) = "universal") =>
        result = parse_universal_csv(lines)

\* the Universal path returned records for an unmatched header
C8_Witness ==
    /\ Returned
    /\ dialect = "universal"
    /\ raised = {}
    /\ result # << >>

(***************************************************************************)
(* Properties of the estimation stage                                      *)
(***************************************************************************)

\* C9: the estimatedSalePrice analyze_item_mock returns for a record with
\* msrp > 0 lies between 15% and 50% of the msrp.
C9_MockPriceWithinBounds ==
    \A i \in DOMAIN items_with_analysis :
        LET r == items_with_analysis[i] IN
        (r.analysis.estimator = "mock" /\ r.msrp > 0) =>
            /\ FloorPercent * r.msrp <= 100 * r.analysis.estimatedSalePrice.val
            /\ 100 * r.analysis.estimatedSalePrice.val <= CapPercent * r.msrp

\* C10: every analysis the estimation stage hands to lambda_handler carries
\* estimatedSalePrice, demand and salesTime, and no request in a configured
\* environment is answered with an error of the server.
C10_EstimatorFailureRecovered ==
    /\ \A i \in DOMAIN items_with_analysis :
          LET a == items_with_analysis[i].analysis IN
          a.estimatedSalePrice.tag = "ok" /\ a.demand # Missing /\ a.salesTime # Missing
    /\ (hpc = "done" /\ event.db_env) => response.statusCode # 500

\* C11: once both Future.result calls are over (each lookup has answered or
\* its timeout has elapsed), check_marketplace_availability is able to
\* return: it does not wait for a lookup that is still running.
C11_NeverWaitsForRunningLookup ==
    mpc = "shutdown" => amazon_future \in LookupResults /\ ebay_future \in LookupResults

GraingerHeader == HeaderOf(DocumentedLayout.grainger)

\* a data row with a non-blank cell in each of the three columns and a
\* price that parses to a positive number
GraingerRow(line) ==
    /\ Len(line) >= Len(GraingerHeader)
    /\ \A i \in 1..Len(line) : Strip(line[i]) # ""
    /\ ParsePrice(line[3]).tag = "ok"
    /\ ParsePrice(line[3]).val > 0

GraingerRecords(text_lines) ==
    LET rows == SelectSeq(Tail(text_lines), GraingerRow)
    IN [i \in 1..Len(rows) |->
           Item(Strip(rows[i][1]), Strip(rows[i][2]), ParsePrice(rows[i][3]).val, 1, None, None)]

\* a is b with some elements left out
RECURSIVE IsSubSeq(_, _)
IsSubSeq(a, b) ==
    IF a = << >> THEN TRUE
    ELSE IF b = << >> THEN FALSE
    ELSE IF Head(a) = Head(b) THEN IsSubSeq(Tail(a), Tail(b))
    ELSE IsSubSeq(a, Tail(b))

GraingerCall == Returned /\ csv_content.isStr /\ lines # << >> /\ lines[1] = GraingerHeader

\* the rows of the claim each yield their record, once and in row order
GraingerRowsYieldRecords ==
    /\ dialect = "grainger"
    /\ IsSubSeq(GraingerRecords(lines), result)
    /\ Len(result) <= Len(lines) - 1
    /\ "dialect" \notin raised => result = GraingerRecords(lines)

Summarised == hpc = "done" /\ response.statusCode = 200 /\ response.message = "analysis"

EstimateOf(i) == items_with_analysis[i].analysis.estimatedSalePrice.val

\* C13: totalMsrp and projectedRevenue are the sums of the items' msrp and
\* estimate; totalProfit is projectedRevenue less the sum of 0.33 of each
\* estimate; profitMargin is totalProfit over that sum, and 0 when the sum
\* is 0.
C13_SummaryTotals ==
    Summarised =>
        LET n == Len(items_with_analysis)
            summary == response.summary
            msrps == [i \in 1..n |-> items_with_analysis[i].msrp]
            estimates == [i \in 1..n |-> EstimateOf(i)]
            costs == [i \in 1..n |-> 33 * EstimateOf(i)]
            margin == summary.profitMargin
        IN /\ summary.totalMsrp = SumSeq(msrps)
           /\ summary.projectedRevenue = SumSeq(estimates)
           /\ summary.totalProfit = 100 * SumSeq(estimates) - SumSeq(costs)
           /\ IF SumSeq(costs) = 0 THEN margin = <<0, 1>>
              ELSE margin = <<summary.totalProfit, SumSeq(costs)>>

\* estimates of 100 and 200 have given totalProfit 201 and profitMargin 201/99
C13_Witness ==
    /\ Summarised
    /\ Len(items_with_analysis) = 2
    /\ EstimateOf(1) = 10000 /\ EstimateOf(2) = 20000
    /\ response.summary.totalProfit = 2010000
    /\ response.summary.profitMargin[1] * 99 = 201 * response.summary.profitMargin[2]
    /\ response.summary.projectedRevenue = 30000

\* C14: when parse_manifest_csv has returned no record, the step
\* lambda_handler takes is the 400 response 'No valid items found in CSV';
\* it ends the request with no estimate and no summary computed.
C14_NoItemsIsRequestError ==
    [][(hpc = "parsing" /\ pc = "returned" /\ result = << >>)
       => /\ hpc' = "done"
          /\ response' = [statusCode |-> 400, message |-> "No valid items found in CSV",
                          details |-> None, summary |-> None]
          /\ items_with_analysis' = << >>]_vars

\* a request whose manifest held rows but no record has been answered
C14_Witness ==
    /\ hpc = "done"
    /\ pc = "returned"
    /\ result = << >>
    /\ Len(lines) > 1
    /\ response.statusCode = 400
    /\ response.message = "No valid items found in CSV"
    /\ items_with_analysis = << >>

\* C15: a text with a blank line before its header is dispatched to the
\* extractor that the text without the blank line is classified for.
C15_LeadingBlankLineIgnored ==
    (Returned /\ csv_content.isStr /\ Len(lines) >= 2 /\ lines[1] = << >> /\ lines[2] # << >>)
    => dialect = Classify(HeaderLine(Tail(lines)))

\* the category rules of analyze_headers in their order: a header matches a
\* rule when it contains one of `any`, one of `also` (if there are any) and
\* none of `nor`
Rule(key, any, also, nor) == [key |-> key, any |-> any, also |-> also, nor |-> nor]

RuleTable ==
    << Rule("item_number", {"item", "sku", "part", "product"}, {"number", "#", "id", "code"}, {}),
       Rule("sku", {"item", "sku", "part", "product"}, {"sku", "stock"}, {}),
       Rule("title", {"title", "name", "description", "desc", "product"}, {}, {}),
       Rule("msrp", {"price", "cost", "msrp", "retail", "sell"}, {"msrp", "retail", "list"}, {}),
       Rule("msrp", {"price", "cost", "msrp", "retail", "sell"}, {}, {"extended", "total"}),
       Rule("quantity", {"qty", "quantity", "count", "units"}, {}, {}),
       Rule("category", {"category", "cat", "type", "class"}, {}, {}),
       Rule("brand", {"brand", "manufacturer", "maker"}, {}, {}),
       Rule("condition", {"condition", "grade", "quality"}, {}, {}),
       Rule("upc", {"upc", "barcode", "ean"}, {}, {}),
       Rule("model", {"model", "part"}, {}, {}),
       Rule("notes", {"notes", "comment", "remark", "description"}, {}, {}),
       Rule("pallet", {"pallet", "lot", "batch", "location", "bin"}, {}, {}) >>

RuleMatches(rule, header_lower) ==
    /\ AnyIn(rule.any, header_lower)
    /\ rule.also = {} \/ AnyIn(rule.also, header_lower)
    /\ ~AnyIn(rule.nor, header_lower)

\* the header goes to the first rule that matches it and whose Field Key is
\* unclaimed
FirstUnclaimed(cm, header) ==
    LET open == {i \in 1..Len(RuleTable) :
                    RuleMatches(RuleTable[i], Strip(Lower(header))) /\ cm[RuleTable[i].key] = None}
    IN IF header = "" \/ open = {} THEN cm
       ELSE [cm EXCEPT ![RuleTable[CHOOSE i \in open : \A j \in open : i <= j].key] = header]

RECURSIVE FirstUnclaimedAll(_, _)
FirstUnclaimedAll(cm, headers) ==
    IF headers = << >> THEN cm
    ELSE FirstUnclaimedAll(FirstUnclaimed(cm, Head(headers)), Tail(headers))

\* C16: analyze_headers gives every header to the first rule, in the order
\* of the rule table, that matches it and whose Field Key is unclaimed; the
\* mapping the Universal path works with is the one this yields (followed
\* by the fallback substitution).
C16_FirstUnclaimedRuleWins ==
    pc = "universal_rows"
    => column_map = FallbackSubstitution(FirstUnclaimedAll(EmptyColumnMap, lines[1]))

\* C17: the header analysis of the Universal path never maps msrp to a
\* header that contains 'extended' or 'total'.
C17_NoExtendedOrTotalPrice ==
    (pc = "universal_rows" /\ column_map.msrp # None)
    => ~AnyIn({"extended", "total"}, Strip(Lower(column_map.msrp)))

\* a header the price rule takes by its MSRP/retail/list sub-rule
ListPriceHeader(header) ==
    /\ HeaderRule(Strip(Lower(header))) = "msrp"
    /\ AnyIn({"msrp", "retail", "list"}, Strip(Lower(header)))

\* a header the price rule takes by its generic sub-rule
GenericPriceHeader(header) ==
    /\ HeaderRule(Strip(Lower(header))) = "msrp"
    /\ ~AnyIn({"msrp", "retail", "list"}, Strip(Lower(header)))

\* C18: when the headers hold an MSRP/retail/list price header and a generic
\* price header, msrp is mapped to the MSRP/retail/list one, in whichever
\* order the two columns stand.
C18_ListPriceBeforeGenericPrice ==
    (/\ pc = "universal_rows"
     /\ \E i \in 1..Len(lines[1]) : ListPriceHeader(lines[1][i])
     /\ \E i \in 1..Len(lines[1]) : GenericPriceHeader(lines[1][i]))
    => column_map.msrp # None /\ ListPriceHeader(column_map.msrp)

\* the row a dialect extractor is about to read, and the record its step
\* appends
RowRead == ReadNext(lines, pos).row

Appends == pc = "dialect" /\ Len(items') = Len(items) + 1

\* C19: the msrp of a record a dialect extractor appends is the price in a
\* column of its row whose header contains none of 'total', 'extended',
\* 'ext'.
C19_MsrpNotFromExtendedColumn ==
    [][Appends =>
          \E i \in 1..Len(RowRead.pairs) :
              /\ NonBlank(RowRead.pairs[i][2])
              /\ ~AnyIn({"total", "extended", "ext"}, KeyLower(RowRead.pairs[i][1]))
              /\ ParsePrice(RowRead.pairs[i][2]) = Ok(items'[Len(items')].msrp)]_vars

\* the cell of the first key that falls in `branch` with a non-blank cell
FirstAssigned(row, tag, branch) ==
    LET hits == {i \in 1..Len(row.pairs) :
                    NonBlank(row.pairs[i][2]) /\ Branches(row, tag)[i] = branch}
    IN row.pairs[CHOOSE i \in hits : \A j \in hits : i <= j][2]

TitleBranch(tag) ==
    CASE tag \in {"grainger", "liquidation", "generic_product", "parts"} -> "title"
      [] tag \in {"staples", "electronics", "costco"} -> "description"
      [] tag = "direct_liquidation" -> "item_title"
      [] tag = "department_store" -> "product_name"

\* C20: the title and the msrp of a record a dialect extractor appends come
\* from the first column of the row, in column order, that matches the
\* field and has a non-blank cell.
C20_FirstMatchingColumnWins ==
    [][Appends =>
          /\ items'[Len(items')].title = Strip(FirstAssigned(RowRead, dialect, TitleBranch(dialect)))
          /\ Ok(items'[Len(items')].msrp) = ParsePrice(FirstAssigned(RowRead, dialect, "msrp"))]_vars

\* the Universal loop stands before a row that reaches extract_item_from_row
ExtractsRow ==
    /\ pc = "universal_rows"
    /\ ReadNext(lines, pos).tag = "row"
    /\ ~SkipsRowUniversal(RowRead)

\* the row's quantity cell is present and int(float(value)) does not give a
\* number
QuantityUncoercible ==
    LET value == MappedCell(RowRead, column_map, "quantity") IN
    value # None /\ IntOfFloat(value).tag # "ok"

\* what extract_item_from_row gives for the row without its quantity column
QuantityAbsent ==
    extract_item_from_row(RowRead, [column_map EXCEPT !["quantity"] = None], row_count + 2)

\* C21: a quantity cell that cannot be coerced is treated as an absent field
\* and nothing more: the Universal iteration on such a row does what it would
\* do without the quantity column (same record or same skip) and leaves the
\* row-error count unchanged.
C21_UncoercibleFieldIsAbsent ==
    [][(ExtractsRow /\ QuantityUncoercible) =>
          /\ error_count' = error_count
          /\ items' = IF QuantityAbsent.tag = "item"
                      THEN Append(items, QuantityAbsent.item) ELSE items]_vars

\* the quantity cell of the row being read: the mapped quantity column in the
\* Universal path, the cell the extractor's quantity branch assigns in a
\* dialect extractor
QuantityCell ==
    IF pc = "universal_rows" THEN MappedCell(RowRead, column_map, "quantity")
    ELSE Assigned(RowRead, Branches(RowRead, dialect), "quantity")

\* a step of the Universal loop or of a dialect extractor that appends a
\* record
AppendsRecord == pc \in {"dialect", "universal_rows"} /\ Len(items') = Len(items) + 1

\* C22: in every extractor the quantity of a record is int(float(cell)) of
\* its quantity cell whenever that is a number other than zero: the cell
\* '3.0' gives quantity 3 in the Universal path and in each dialect
\* extractor.
C22_QuantityIsTruncatedFloat ==
    [][(AppendsRecord /\ QuantityCell # None /\ TruthyNum(IntOfFloat(QuantityCell))) =>
          items'[Len(items')].quantity = IntOfFloat(QuantityCell).val]_vars

\* the Universal loop stands before a row
ReadsRow == pc = "universal_rows" /\ ReadNext(lines, pos).tag = "row"

\* the quantity coercion of the row raises before the validity gate is reached
QuantityRaises ==
    LET value == MappedCell(RowRead, column_map, "quantity") IN
    value # None /\ IntOfFloat(value).tag = "OverflowError"

\* if not title or not msrp or msrp <= 0
GateFails ==
    LET title == MappedCell(RowRead, column_map, "title")
        value == MappedCell(RowRead, column_map, "msrp")
        msrp == IF value = None THEN NoneNum ELSE ParsePrice(value)
    IN ~Truthy(title) \/ ~TruthyNum(msrp) \/ msrp.val <= 0

AtSummary == hpc = "estimate" /\ Len(items_with_analysis) = Len(result)

\* every estimate carries a demand and a salesTime string
EstimatesComplete ==
    \A i \in 1..Len(items_with_analysis) :
        /\ items_with_analysis[i].analysis.demand # Missing
        /\ items_with_analysis[i].analysis.salesTime # Missing

\* the salesTime of item i holds an integer to parse
HasInteger(i) == FirstDigits(items_with_analysis[i].analysis.salesTime, "") # ""

\* C24: calculate_summary completes for every collection of items whose
\* estimates carry a salesTime; an item whose salesTime holds no integer
\* contributes nothing, and avgSalesTime is 'N/A' exactly when no item has a
\* salesTime with an integer.
C24_SalesTimeAveraged ==
    (AtSummary /\ EstimatesComplete) =>
        LET summary == calculate_summary(items_with_analysis) IN
        /\ summary.tag = "ok"
        /\ summary.avgSalesTime = "N/A" <=> \A i \in 1..Len(items_with_analysis) : ~HasInteger(i)

\* one run of the extractor of a dialect over the whole text, from a fresh
\* reader: the records it returns, or the fact that it raised
RECURSIVE DialectLoop(_, _, _, _)
DialectLoop(tag, text_lines, at, acc) ==
    LET r == ReadNext(text_lines, at) IN
    IF r.tag = "end" THEN [tag |-> "ok", items |-> acc]
    ELSE IF r.tag = "error" THEN [tag |-> "raise", items |-> acc]
    ELSE LET out == DialectRow(tag, r.row, Len(acc)) IN
         IF out.tag = "raise" THEN [tag |-> "raise", items |-> acc]
         ELSE DialectLoop(tag, text_lines, r.idx,
                          IF out.tag = "item" THEN Append(acc, out.item) ELSE acc)

\* the list of the one extractor run that parse_manifest_csv answers with
SingleRun(text_lines) ==
    LET tag == Classify(HeaderLine(text_lines)) IN
    IF tag = "universal" THEN parse_universal_csv(text_lines)
    ELSE LET run == DialectLoop(tag, text_lines, 0, << >>) IN
         IF run.tag = "ok" THEN run.items ELSE parse_universal_csv(text_lines)

\* C25: the list parse_manifest_csv returns comes from a single extractor
\* run: the run of the dialect extractor when it reaches the end of the
\* text, else the Universal path's result for the whole text.  The Universal
\* path starts from an empty list, so the records of a failed extractor are
\* discarded and never mixed with its own.
C25_SingleExtractorRun ==
    /\ pc = "universal_open" => items = << >>
    /\ (Returned /\ csv_content.isStr /\ lines # << >>) => result = SingleRun(lines)

\* a dialect extractor raised after extracting a record, and the list
\* returned holds the Universal path's two records, the first of them
\* different from the discarded one
C25_Witness ==
    /\ Returned
    /\ raised = {"dialect"}
    /\ Len(lost) = 1
    /\ Len(result) = 2
    /\ result[1] # lost[1]
    /\ result = parse_universal_csv(lines)

HighMargin == "High profit margin detected"

\* the recommendation is among those of the summary returned
Recommends(text) ==
    \E i \in DOMAIN response.summary.recommendations :
        response.summary.recommendations[i] = text

\* sum(estimatedSalePrice * 0.33), in hundredths of a hundredth
SummedCost == SumSeq([i \in 1..Len(items_with_analysis) |-> 33 * EstimateOf(i)])

\* C26: the profitMargin of a summary does not depend on the items: whenever
\* projectedRevenue > 0 it is (1 - 0.33) / 0.33 = 67/33, so the 'High profit
\* margin detected' recommendation is present exactly when the summed
\* liquidation cost is positive, and absent only when that cost is 0.
C26_MarginIsConstant ==
    Summarised =>
        LET summary == response.summary IN
        /\ summary.projectedRevenue > 0 =>
              33 * summary.profitMargin[1] = 67 * summary.profitMargin[2]
        /\ Recommends(HighMargin) <=> SummedCost > 0
        /\ ~Recommends(HighMargin) => SummedCost = 0 /\ summary.profitMargin = <<0, 1>>

\* two items with different estimates (the second estimated at 0.0): the
\* margin is 67/33 and the recommendation is given
C26_Witness ==
    /\ Summarised
    /\ Len(items_with_analysis) = 2
    /\ EstimateOf(1) > 0 /\ EstimateOf(2) = 0
    /\ 33 * response.summary.profitMargin[1] = 67 * response.summary.profitMargin[2]
    /\ Recommends(HighMargin)

\* C27: every record of the returned list has a quantity >= 1: no quantity
\* cell makes the quantity of a record zero or negative.
C27_QuantityAtLeastOne ==
    Returned => \A i \in 1..Len(result) : result[i].quantity >= 1

\* an eBay search that fails and an AI completion without API key
NoSales == EbayReply("request_error", << >>)
NoKey == AiReply("no_key", FALSE, NumMissing, Missing, Missing)

\* analyze_item_with_ebay_data can return the analysis for the item: from
\* an eBay reply with enough sales, or without eBay data from an AI reply
\* that is an object, or without either from analyze_item_mock
FromRichPath(item, analysis) ==
    \/ /\ analysis.estimator = "ebay"
       /\ \E ebay \in {e \in EbayReplies : Len(e.prices) >= MinSampleSize} :
             analysis = analyze_item_with_ebay_data(item, ebay, NoKey, JitterLow)
    \/ /\ analysis.estimator = "ai"
       /\ \E ai \in {x \in AiReplies : x.isObject} :
             analysis = analyze_item_with_ebay_data(item, NoSales, ai, JitterLow)
    \/ /\ analysis.estimator = "mock"
       /\ \E jitter \in Jitters :
             analysis = analyze_item_with_ebay_data(item, NoSales, NoKey, jitter)

\* analyze_item_mock can return the analysis for the item
FromMock(item, analysis) ==
    \E jitter \in Jitters : analysis = analyze_item_mock(item, jitter)

\* the i-th response item extends the parsed item and the analysis
Extends(r, item, analysis) ==
    /\ Item(r.item_number, r.title, r.msrp, r.quantity, r.notes, r.pallet) = item
    /\ r.analysis = analysis
    /\ r.profit = 100 * analysis.estimatedSalePrice.val - 33 * analysis.estimatedSalePrice.val

\* C28: the response items of lambda_handler are the parsed items, each
\* exactly once and in parse order: the list only grows, by one item at its
\* end, the i-th item added being the i-th parsed item with an analysis of
\* analyze_item_with_ebay_data for the first two and of analyze_item_mock for
\* all remaining ones, and with the profit estimatedSalePrice minus 0.33
\* times that price; the 200 response holds as many items as were parsed.
C28_EveryItemOnceInOrder ==
    [][/\ items_with_analysis' # items_with_analysis =>
             LET i == Len(items_with_analysis')
                 r == items_with_analysis'[i]
             IN /\ i = Len(items_with_analysis) + 1
                /\ i <= Len(result)
                /\ SubSeq(items_with_analysis', 1, i - 1) = items_with_analysis
                /\ Extends(r, result[i], r.analysis)
                /\ i <= RichItems => FromRichPath(result[i], r.analysis)
                /\ i > RichItems => FromMock(result[i], r.analysis)
       /\ (hpc' = "done" /\ response'.statusCode = 200 /\ response'.message = "analysis") =>
             Len(items_with_analysis') = Len(result)]_vars

\* three items answered: the first estimated from eBay sales, the second by
\* the AI completion, the third by analyze_item_mock
C28_Witness ==
    /\ Summarised
    /\ Len(result) = 3
    /\ result[1] # result[2]
    /\ items_with_analysis[1].analysis.estimator = "ebay"
    /\ items_with_analysis[2].analysis.estimator = "ai"
    /\ items_with_analysis[3].analysis.estimator = "mock"

Answered(statusCode, message) ==
    /\ upc = "done"
    /\ upload_response.statusCode = statusCode
    /\ upload_response.message = message

\* C30: the uploader writes the CSV to S3 before it parses it.  No object
\* is stored for an OPTIONS request, an invalid JSON body or empty file
\* content; parse_grainger_csv is called only after put_object has stored
\* the object; a request answered 400 'No valid items found in CSV' has its
\* file stored in S3; and once the file is stored and items were found, the
\* database step does not change the 200 response.
C30_StoredBeforeParsed ==
    /\ Len(s3_objects) <= 1
    /\ (upc = "done" /\ event.httpMethod = "OPTIONS") => s3_objects = << >>
    /\ Answered(400, "Invalid JSON body") => s3_objects = << >>
    /\ Answered(400, "No file content provided") => s3_objects = << >>
    /\ (upc = "done" /\ (event.body # "json" \/ lines = << >>)) => s3_objects = << >>
    /\ \A i \in DOMAIN upload_log :
          upload_log[i] = "parse_grainger_csv" =>
              /\ i = 2 /\ upload_log[1] = "put_object"
              /\ s3_objects = <<[Body |-> lines, ContentType |-> "text/csv"]>>
    /\ Answered(400, "No valid items found in CSV") =>
          /\ s3_objects = <<[Body |-> lines, ContentType |-> "text/csv"]>>
          /\ upload_log = <<"put_object", "parse_grainger_csv">>
    /\ (upc = "done" /\ s3_objects # << >> /\ upload_items # << >>) =>
          /\ upload_response.statusCode = 200
          /\ upload_response.totalItems = Len(upload_items)
          /\ upload_log = <<"put_object", "parse_grainger_csv", "get_db_connection">>

\* a file whose only row has the price 'N/A' was answered 400 'No valid
\* items found in CSV' with its object stored
C30_Witness ==
    /\ Answered(400, "No valid items found in CSV")
    /\ Len(lines) = 2
    /\ Len(s3_objects) = 1
    /\ s3_objects[1].Body = lines
    /\ upload_items = << >>

====
